---- MODULE Spec2Model ----
(***************************************************************************)
(* Model of the real-time monitoring core of src/realtime_monitoring.py:   *)
(* DataBuffer, AlertManager and the scan loop of RealTimeMonitoringSystem. *)
(* Time is a discrete clock `now` (one tick = one minute, the unit of      *)
(* AlertRule.cooldown_minutes); Python None is NoneValue / "None".         *)
(***************************************************************************)
EXTENDS Integers, Sequences, FiniteSets, TLC

\* ------------------------------------------------------------------ bounds
\* Largest value of the clock `now`.
MaxClock == 2
\* DataBuffer.max_size of the buffer under study (the constructor's argument).
MaxSize == 2
\* Largest number of add_point calls per point.
MaxAdds == 3
\* Largest number of start_monitoring calls.
MaxStarts == 1
\* Largest number of start_monitoring calls in the runs where several tasks
\* write to the buffer at the same time.
MaxRestarts == 2
\* Largest number of samples written per point in those runs.
MaxWrites == 2

\* Largest number of monitoring points registered in the runs of the executor.
MaxPoints == 10
\* Largest number of webhook URLs added to the NotificationSystem.
MaxWebhooks == 2
\* Largest number of registers asked for in one Modbus read.
MaxCount == 2
\* Largest number of requests made on one Modbus TCP connection in a run.
MaxCalls == 3
\* Largest number of protocol objects add_connection constructs in a run.
MaxConnects == 3
\* Largest number of _trigger_alert calls followed in a run.
MaxTriggers == 3
\* The latest timestamp (in minutes) update_data is called with.
MaxStamp == 5
\* The records of the Redis list the dashboard has acknowledged or resolved
\* when it is called once more.
MaxHandled == 1

\* ------------------------------------------------------- program constants
\* ThreadPoolExecutor(max_workers=10), the one executor of the system.
max_workers == 10
\* Python None where a number is expected (current_value, *_time).
NoneValue == -1
\* MonitoringData("", datetime.now(), 0).value: what get_value gives for an
\* unknown point id.
DefaultValue == 0
\* AlertRule.cooldown_minutes default.
DefaultCooldown == 5

PointIds == {"T001", "P001"}
Users == {"alice", "bob"}

\* ------------------------------------------------------------------ state
VARIABLES
  now,              \* datetime.now(), in minutes
  alert_rules,      \* AlertManager.alert_rules: dict, as the sequence of its values in insertion order
  heap,             \* the Alert objects ever constructed; an object reference is its index
  active_alerts,    \* AlertManager.active_alerts: alert_id -> reference
  alert_history,    \* AlertManager.alert_history: list of references
  cooldown_tracker, \* AlertManager.cooldown_tracker: rule_id -> time
  alert_queue,      \* AlertManager.alert_queue: queue of references
  last,             \* the call that has just returned: its arguments, return value and log
  buffer,           \* DataBuffer.buffer: point_id -> list of MonitoringData
  buffer_order,     \* the keys of DataBuffer.buffer in insertion order (the order a dict iterates in)
  locks,            \* DataBuffer.locks: point_id -> the thread holding the lock, or "free"
  written,          \* per point, every sample add_point has been called with, in call order
  monitoring_points,\* RealTimeMonitoringSystem.monitoring_points: dict, as the sequence of its values
  status,           \* RealTimeMonitoringSystem.status
  tasks,            \* the callables submitted to self.executor, in submission order
  scan_threads,     \* RealTimeMonitoringSystem.scan_threads: point_id -> the task whose thread_info it holds
  scan_log,         \* per scan task, what each finished iteration of its loop did
  starts,           \* the number of start_monitoring calls so far
  notification_system, \* RealTimeMonitoringSystem.notification_system: email_config, sms_config, webhook_urls
  connected_clients,\* RealTimeMonitoringSystem.connected_clients: the set of websocket connections
  performance_stats,\* RealTimeMonitoringSystem.performance_stats
  samples,          \* the MonitoringData objects handed to readers by reference; a reference is its index
  connections,      \* ProtocolManager.connections: name -> reference of a protocol object
  protocols,        \* the protocol objects ever constructed: kind, socket, transaction_id
  redis_alerts,     \* the Redis list "alerts" of src/monitoring_alerting.py, head first
  monitor_alerts,   \* RealTimeMonitor.active_alerts: alert_key -> the last accepted alert
  pc,               \* per thread of a concurrent run: the statement it is at
  loc               \* per thread: the arguments and locals of the call it is in

amVars == <<alert_rules, heap, active_alerts, alert_history, cooldown_tracker, alert_queue>>
dbVars == <<buffer, buffer_order, locks, written>>
sysVars == <<monitoring_points, status, tasks, scan_threads, scan_log, starts,
            notification_system, connected_clients>>
\* What no AlertManager method touches, and what no DataBuffer / scan step touches.
thVars == <<pc, loc>>
\* The protocol layer (src/industrial_protocols.py), the Redis-backed alerting
\* of src/monitoring_alerting.py, and the objects readers hold.
extVars == <<samples, connections, protocols, redis_alerts, monitor_alerts>>
outsideAM == <<dbVars, sysVars, performance_stats, thVars, extVars>>
outsideDB == <<amVars, last, thVars, extVars>>

\* A dict as a function; d[k] = v.
Put(d, k, v) == [x \in (DOMAIN d) \cup {k} |-> IF x = k THEN v ELSE d[x]]
\* del d[k]
Del(d, k) == [x \in (DOMAIN d) \ {k} |-> d[x]]
EmptyDict == [x \in {} |-> 0]

\* ------------------------------------------------------------- alert rules
\* get_value('T001') > 95 and the like; "malformed" is a condition text that
\* does not parse ("get_value('T001') >"): eval raises SyntaxError.
CondGt(p, th) == [kind |-> "gt", point |-> p, threshold |-> th]
CondMalformed(p) == [kind |-> "malformed", point |-> p, threshold |-> 0]

\* message_template: "ok" names only {value}, {point}, {time};
\* "badkey" names a field format() is not given ("{valve}").
RuleCatalog ==
  { [rule_id |-> "TEMP_HIGH", condition |-> CondGt("T001", 95), priority |-> 4,
     message_template |-> "ok", cooldown_minutes |-> 1, enabled |-> TRUE,
     acknowledgement_required |-> TRUE],
    [rule_id |-> "PRESSURE_LOW", condition |-> CondGt("P001", 95), priority |-> 3,
     message_template |-> "ok", cooldown_minutes |-> DefaultCooldown, enabled |-> TRUE,
     acknowledgement_required |-> FALSE],
    [rule_id |-> "BAD_COND", condition |-> CondMalformed("T001"), priority |-> 2,
     message_template |-> "ok", cooldown_minutes |-> 1, enabled |-> TRUE,
     acknowledgement_required |-> FALSE],
    [rule_id |-> "BAD_TMPL", condition |-> CondGt("T001", 95), priority |-> 1,
     message_template |-> "badkey", cooldown_minutes |-> 1, enabled |-> TRUE,
     acknowledgement_required |-> FALSE],
    [rule_id |-> "TEMP_HIGH", condition |-> CondGt("T001", 95), priority |-> 4,
     message_template |-> "ok", cooldown_minutes |-> 1, enabled |-> FALSE,
     acknowledgement_required |-> TRUE] }

RuleIds == {r.rule_id : r \in RuleCatalog}

RuleIndex(rules, rid) == CHOOSE i \in 1..Len(rules) : rules[i].rule_id = rid
HasRule(rules, rid) == \E i \in 1..Len(rules) : rules[i].rule_id = rid

\* The snapshots evaluate_alerts is called with: a dict point_id -> MonitoringData
\* in insertion order, as the sequence of its values.
Sample(p, t, v, q, s) == [point_id |-> p, timestamp |-> t, value |-> v, quality |-> q, status |-> s]
Snapshots ==
  { <<>>,
    <<Sample("T001", 0, 96, "GOOD", "ONLINE")>>,
    <<Sample("T001", 0, 94, "GOOD", "ONLINE")>>,
    <<Sample("P001", 0, 96, "GOOD", "ONLINE"), Sample("T001", 0, 96, "GOOD", "ONLINE")>> }

HasPoint(data, p) == \E i \in 1..Len(data) : data[i].point_id = p
\* monitoring_data.get(point_id, MonitoringData("", datetime.now(), 0)).value
get_value(data, p) ==
  IF HasPoint(data, p)
  THEN data[CHOOSE i \in 1..Len(data) : data[i].point_id = p].value
  ELSE DefaultValue

\* eval(rule.condition, {"__builtins__": {}}, context): "true", "false", or the
\* exception it raises.
EvalCondition(cond, data) ==
  IF cond.kind = "malformed" THEN "SyntaxError"
  ELSE IF get_value(data, cond.point) > cond.threshold THEN "true" ELSE "false"

\* `point_id in rule.condition`: the condition text names the point.
Mentions(cond, p) == cond.point = p

\* The first point of monitoring_data (in dict order) the condition names, or 0.
SourceIndex(rule, data) ==
  IF \E i \in 1..Len(data) : Mentions(rule.condition, data[i].point_id)
  THEN CHOOSE i \in 1..Len(data) :
         /\ Mentions(rule.condition, data[i].point_id)
         /\ \A j \in 1..(i - 1) : ~Mentions(rule.condition, data[j].point_id)
  ELSE 0

\* rule.message_template.format(value=..., point=..., time=...): the message
\* (the template with the value and the point filled in) or KeyError.
FormatMessage(template, value, point) ==
  IF template = "badkey"
  THEN [exc |-> "KeyError", message |-> <<>>]
  ELSE [exc |-> "none", message |-> <<template, value, point>>]

\* The fields of the Alert dataclass, and the keywords _trigger_alert passes
\* to Alert(...). A dataclass __init__ raises TypeError on a keyword that is
\* not one of its fields.
AlertFields ==
  {"alert_id", "rule_id", "timestamp", "alert_type", "priority", "message",
   "source_point", "current_value", "acknowledged", "acknowledged_by",
   "acknowledged_time", "resolved", "resolved_time"}
TriggerKeywords ==
  {"alert_id", "rule_id", "timestamp", "alert_type", "priority", "message",
   "source_point", "current_value", "acknowledgement_required"}
AlertInitAccepts(keywords) == keywords \subseteq AlertFields

\* Alert(...) with the defaults of the dataclass.
Alert(alert_id, rule, t, message, source_point, current_value) ==
  [alert_id |-> alert_id, rule_id |-> rule.rule_id, timestamp |-> t,
   priority |-> rule.priority, message |-> message,
   source_point |-> source_point, current_value |-> current_value,
   acknowledged |-> FALSE, acknowledged_by |-> "None", acknowledged_time |-> NoneValue,
   resolved |-> FALSE, resolved_time |-> NoneValue]

\* The manager state a call works on.
Manager == [heap |-> heap, active |-> active_alerts, history |-> alert_history,
            tracker |-> cooldown_tracker, queue |-> alert_queue]

\* AlertManager._trigger_alert at time t: the manager state it leaves and the
\* exception it raises ("none": it returned).
TriggerAlert(rule, data, m, t) ==
  LET alert_id == <<rule.rule_id, t>>
      i == SourceIndex(rule, data)
      source_point == IF i = 0 THEN "unknown" ELSE data[i].point_id
      current_value == IF i = 0 THEN NoneValue ELSE data[i].value
      fm == FormatMessage(rule.message_template, current_value, source_point)
      ref == Len(m.heap) + 1
  IN IF fm.exc # "none" THEN [m |-> m, exc |-> fm.exc]
     ELSE IF ~AlertInitAccepts(TriggerKeywords) THEN [m |-> m, exc |-> "TypeError"]
     ELSE [m |-> [heap |-> Append(m.heap, Alert(alert_id, rule, t, fm.message,
                                                 source_point, current_value)),
                  active |-> Put(m.active, alert_id, ref),
                  history |-> Append(m.history, ref),
                  tracker |-> Put(m.tracker, rule.rule_id, t),
                  queue |-> Append(m.queue, ref)],
           exc |-> "none"]

\* `except Exception`: every exception the body can raise here is one.
CaughtOnlyValueError(exc) == exc = "ValueError"
CaughtByExcept(exc) == exc \in {"SyntaxError", "KeyError", "TypeError", "ValueError"}

\* The cooldown check of evaluate_alerts.
InCooldown(rule, tracker, t) ==
  /\ rule.rule_id \in DOMAIN tracker
  /\ t < tracker[rule.rule_id] + rule.cooldown_minutes

LogEntry(step, cond, exc) == [step |-> step, cond |-> cond, exc |-> exc]
NotReached == LogEntry("notreached", "na", "none")

\* The loop body of evaluate_alerts for one rule: the manager state, what the
\* rule did (for the log) and the exception that leaves the body, if any.
EvalRule(rule, data, m, t) ==
  IF ~rule.enabled THEN [m |-> m, log |-> LogEntry("disabled", "na", "none"), exc |-> "none"]
  ELSE IF InCooldown(rule, m.tracker, t)
  THEN [m |-> m, log |-> LogEntry("cooldown", "na", "none"), exc |-> "none"]
  ELSE LET c == EvalCondition(rule.condition, data)
           tr == TriggerAlert(rule, data, m, t)
           raised == IF c \notin {"true", "false"} THEN c
                     ELSE IF c = "true" THEN tr.exc ELSE "none"
       IN [m |-> IF c = "true" THEN tr.m ELSE m,
           log |-> LogEntry("evaluated",
                            IF c \in {"true", "false"} THEN c ELSE "raised", raised),
           exc |-> IF raised # "none" /\ ~CaughtByExcept(raised) THEN raised ELSE "none"]

\* evaluate_alerts from rule i on; an exception that leaves a loop body ends it.
RECURSIVE EvalFrom(_, _, _, _, _, _)
EvalFrom(i, rules, data, m, t, log) ==
  IF i > Len(rules) THEN [m |-> m, log |-> log, exc |-> "none"]
  ELSE LET r == EvalRule(rules[i], data, m, t)
           log2 == Put(log, i, r.log)
       IN IF r.exc # "none" THEN [m |-> r.m, log |-> log2, exc |-> r.exc]
          ELSE EvalFrom(i + 1, rules, data, r.m, t, log2)

\* -------------------------------------------------------------- DataBuffer
\* DataBuffer.__init__
InitBuffer ==
  /\ buffer = EmptyDict
  /\ buffer_order = <<>>
  /\ locks = EmptyDict
  /\ written = [p \in PointIds |-> <<>>]

\* add_point that drops the newest sample on overflow (pop() for pop(0)).
add_point_drops_newest(buf, p, data) ==
  LET b1 == IF p \in DOMAIN buf THEN buf ELSE Put(buf, p, <<>>)
      b2 == Put(b1, p, Append(b1[p], data))
  IN IF Len(b2[p]) > MaxSize THEN Put(b2, p, SubSeq(b2[p], 1, Len(b2[p]) - 1)) ELSE b2

\* DataBuffer.add_point, run without interruption: the buffer dict it leaves.
add_point(buf, p, data) ==
  LET b1 == IF p \in DOMAIN buf THEN buf ELSE Put(buf, p, <<>>)
      b2 == Put(b1, p, Append(b1[p], data))
  IN IF Len(b2[p]) > MaxSize THEN Put(b2, p, Tail(b2[p])) ELSE b2

\* The rest of the DataBuffer after add_point(p, data): key order, locks, and
\* the record of what was written.
AddPointEffects(p, data) ==
  /\ buffer' = add_point(buffer, p, data)
  /\ buffer_order' = IF p \in DOMAIN buffer THEN buffer_order ELSE Append(buffer_order, p)
  /\ locks' = IF p \in DOMAIN buffer THEN locks ELSE Put(locks, p, "free")
  /\ written' = [written EXCEPT ![p] = Append(@, data)]

\* The values a read gives (floats of random.uniform, two of them).
Readings == {94, 96}

\* A direct DataBuffer.add_point(point_id, data) call.
AddPoint(p, v) ==
  /\ Len(written[p]) < MaxAdds
  /\ AddPointEffects(p, Sample(p, now, v, "GOOD", "ONLINE"))
  /\ UNCHANGED <<now, sysVars, outsideDB, performance_stats>>

\* ---------------------------------------------------------------- scan loop
\* MonitoringPoint records; name "None" is a point whose name is not a string
\* (None), on which point.name.lower() raises AttributeError.
PointCatalog ==
  { [point_id |-> "T001", name |-> "Reactor Temperature", scan_rate_ms |-> 1000, enabled |-> TRUE],
    [point_id |-> "T001", name |-> "None", scan_rate_ms |-> 1000, enabled |-> TRUE],
    [point_id |-> "P001", name |-> "System Pressure", scan_rate_ms |-> 500, enabled |-> TRUE],
    [point_id |-> "P001", name |-> "System Pressure", scan_rate_ms |-> 500, enabled |-> FALSE] }

\* NotificationSystem.__init__ (lines 302-306): nothing configured.
NotificationSystem == [email_config |-> FALSE, sms_config |-> FALSE, webhook_urls |-> <<>>]

\* RealTimeMonitoringSystem.__init__
InitSystem ==
  /\ monitoring_points = <<>>
  /\ status = "OFFLINE"
  /\ tasks = <<>>
  /\ scan_threads = EmptyDict
  /\ scan_log = <<>>
  /\ starts = 0
  /\ notification_system = NotificationSystem
  /\ connected_clients = {}
  /\ performance_stats = [points_scanned |-> 0, last_scan_time |-> NoneValue]

\* ProtocolManager.__init__, RealTimeMonitor.__init__ with an empty Redis list,
\* and no sample handed out yet.
InitExternal ==
  /\ samples = <<>>
  /\ connections = EmptyDict
  /\ protocols = <<>>
  /\ redis_alerts = <<>>
  /\ monitor_alerts = EmptyDict

\* _read_point_value(point): the exception it raises ("none": it returns one
\* of Readings).
ReadPointValue(point) == IF point.name = "None" THEN "AttributeError" ELSE "none"

\* add_monitoring_point: a dict assignment keeps the key's place.
AddMonitoringPoint(point) ==
  /\ monitoring_points' =
       IF \E i \in 1..Len(monitoring_points) : monitoring_points[i].point_id = point.point_id
       THEN [monitoring_points EXCEPT
               ![CHOOSE i \in 1..Len(monitoring_points) :
                   monitoring_points[i].point_id = point.point_id] = point]
       ELSE Append(monitoring_points, point)
  /\ UNCHANGED <<now, status, tasks, scan_threads, scan_log, starts, notification_system, connected_clients, dbVars, outsideDB,
                 performance_stats>>

\* A submitted scan_loop closure: the point it was created for, its own
\* thread_info, and where it is ("submitted": not yet run).
ScanTask(point) == [kind |-> "scan", point |-> point, state |-> "submitted", stop |-> FALSE]
LoopTask(kind) == [kind |-> kind, point |-> [point_id |-> "", name |-> "", scan_rate_ms |-> 0, enabled |-> FALSE],
                   state |-> "submitted", stop |-> FALSE]

\* start_monitoring: status ACTIVE, one scan_loop submitted per enabled point,
\* then the alert evaluation loop, the notification loop and the websocket
\* server.
StartMonitoringUpTo(n) ==
  /\ starts < n
  /\ starts' = starts + 1
  /\ status' = "ACTIVE"
  /\ tasks' = tasks
              \o [i \in 1..Len(SelectSeq(monitoring_points, LAMBDA pt : pt.enabled)) |->
                    ScanTask(SelectSeq(monitoring_points, LAMBDA pt : pt.enabled)[i])]
              \o <<LoopTask("alert_evaluation"), LoopTask("notification"), LoopTask("websocket")>>
  /\ scan_log' = scan_log
              \o [i \in 1..(Len(SelectSeq(monitoring_points, LAMBDA pt : pt.enabled)) + 3) |-> <<>>]
  /\ UNCHANGED <<now, monitoring_points, scan_threads, notification_system, connected_clients, dbVars, outsideDB,
                 performance_stats>>

StartMonitoring == StartMonitoringUpTo(MaxStarts)

\* scan_loop starts on a worker: it creates its thread_info and registers it.
ScanLoopStart(i) ==
  /\ tasks[i].kind = "scan" /\ tasks[i].state = "submitted"
  /\ tasks' = [tasks EXCEPT ![i].state = "running"]
  /\ scan_threads' = Put(scan_threads, tasks[i].point.point_id, i)
  /\ UNCHANGED <<now, monitoring_points, status, scan_log, starts, notification_system, connected_clients, dbVars, outsideDB,
                 performance_stats>>

\* An except branch that gives up on the whole system (as the handler of
\* start_monitoring does).
ScanExceptSetsError(st) == "ERROR"

\* The status after the except branch of scan_loop (lines 597-599): the
\* handler logs and sleeps, it does not touch the status.
ScanExcept(st) == st

\* One pass of the `while` of scan_loop: the test, then either the end of the
\* loop or one iteration (read, add_point; on an exception log and sleep(1)).
ScanIteration(i, v) ==
  /\ tasks[i].kind = "scan" /\ tasks[i].state = "running"
  /\ LET point == tasks[i].point
         p == point.point_id
     IN IF tasks[i].stop \/ status # "ACTIVE"
        THEN /\ tasks' = [tasks EXCEPT ![i].state = "done"]
             /\ UNCHANGED <<scan_log, dbVars, performance_stats, extVars>>
        ELSE /\ Len(written[p]) < MaxAdds
             /\ tasks' = tasks
             /\ IF ReadPointValue(point) = "none"
                THEN /\ AddPointEffects(p, Sample(p, now, v, "GOOD", "ONLINE"))
                     /\ performance_stats' = [points_scanned |-> performance_stats.points_scanned + 1,
                                              last_scan_time |-> now]
                     /\ scan_log' = [scan_log EXCEPT ![i] =
                          Append(@, [read |-> "ok", appended |-> 1,
                                     quality |-> "GOOD", status |-> "ONLINE"])]
                ELSE /\ UNCHANGED <<dbVars, performance_stats, extVars>>
                     /\ scan_log' = [scan_log EXCEPT ![i] =
                          IF Len(@) < MaxAdds
                          THEN Append(@, [read |-> ReadPointValue(point), appended |-> 0,
                                          quality |-> "", status |-> ""])
                          ELSE @]
  /\ status' = IF ~(tasks[i].stop \/ status # "ACTIVE") /\ ReadPointValue(tasks[i].point) # "none"
               THEN ScanExcept(status) ELSE status
  /\ UNCHANGED <<now, monitoring_points, scan_threads, starts, notification_system,
                 connected_clients, outsideDB>>

\* ---------------------------------------------------------------- actions
\* A sequential run: one caller, every call runs to its end.
NoThreads == pc = EmptyDict /\ loc = EmptyDict

Init ==
  /\ now = 0
  /\ alert_rules = <<>>
  /\ heap = <<>>
  /\ active_alerts = EmptyDict
  /\ alert_history = <<>>
  /\ cooldown_tracker = EmptyDict
  /\ alert_queue = <<>>
  /\ last = [op |-> "init"]
  /\ InitBuffer
  /\ InitSystem
  /\ InitExternal
  /\ NoThreads

Tick ==
  /\ now < MaxClock
  /\ now' = now + 1
  /\ last' = [op |-> "tick"]
  /\ UNCHANGED <<amVars, outsideAM>>

\* AlertManager.add_alert_rule: a dict assignment keeps the key's place.
AddAlertRule(rule) ==
  /\ alert_rules' = IF HasRule(alert_rules, rule.rule_id)
                    THEN [alert_rules EXCEPT ![RuleIndex(alert_rules, rule.rule_id)] = rule]
                    ELSE Append(alert_rules, rule)
  /\ last' = [op |-> "add_alert_rule"]
  /\ UNCHANGED <<now, heap, active_alerts, alert_history, cooldown_tracker, alert_queue, outsideAM>>

\* AlertManager.remove_alert_rule
RemoveAlertRule(rid) ==
  /\ alert_rules' = SelectSeq(alert_rules, LAMBDA r : r.rule_id # rid)
  /\ last' = [op |-> "remove_alert_rule"]
  /\ UNCHANGED <<now, heap, active_alerts, alert_history, cooldown_tracker, alert_queue, outsideAM>>

\* AlertManager.evaluate_alerts(monitoring_data), one whole cycle.
EvaluateAlerts(data) ==
  LET r == EvalFrom(1, alert_rules, data, Manager, now,
                    [i \in 1..Len(alert_rules) |-> NotReached])
  IN /\ heap' = r.m.heap
     /\ active_alerts' = r.m.active
     /\ alert_history' = r.m.history
     /\ cooldown_tracker' = r.m.tracker
     /\ alert_queue' = r.m.queue
     /\ last' = [op |-> "evaluate_alerts", rules |-> alert_rules, data |-> data,
                 before |-> Manager, log |-> r.log, exc |-> r.exc]
     /\ UNCHANGED <<now, alert_rules, outsideAM>>

\* AlertManager.acknowledge_alert(alert_id, acknowledged_by)
AcknowledgeAlert(id, user) ==
  /\ IF id \in DOMAIN active_alerts
     THEN /\ heap' = [heap EXCEPT ![active_alerts[id]] =
                        [@ EXCEPT !.acknowledged = TRUE,
                                  !.acknowledged_by = user,
                                  !.acknowledged_time = now]]
          /\ last' = [op |-> "acknowledge_alert", alert_id |-> id, user |-> user, ret |-> TRUE]
     ELSE /\ heap' = heap
          /\ last' = [op |-> "acknowledge_alert", alert_id |-> id, user |-> user, ret |-> FALSE]
  /\ UNCHANGED <<now, alert_rules, active_alerts, alert_history, cooldown_tracker, alert_queue, outsideAM>>

\* resolve_alert without the `del self.active_alerts[alert_id]`.
ResolveAlertKeepsActive(id) ==
  /\ IF id \in DOMAIN active_alerts
     THEN /\ heap' = [heap EXCEPT ![active_alerts[id]] =
                        [@ EXCEPT !.resolved = TRUE, !.resolved_time = now]]
          /\ last' = [op |-> "resolve_alert", alert_id |-> id, ret |-> TRUE]
     ELSE /\ heap' = heap
          /\ last' = [op |-> "resolve_alert", alert_id |-> id, ret |-> FALSE]
  /\ UNCHANGED <<now, alert_rules, active_alerts, alert_history, cooldown_tracker, alert_queue, outsideAM>>

\* AlertManager.resolve_alert(alert_id)
ResolveAlert(id) ==
  /\ IF id \in DOMAIN active_alerts
     THEN /\ heap' = [heap EXCEPT ![active_alerts[id]] =
                        [@ EXCEPT !.resolved = TRUE, !.resolved_time = now]]
          /\ active_alerts' = Del(active_alerts, id)
          /\ last' = [op |-> "resolve_alert", alert_id |-> id, ret |-> TRUE]
     ELSE /\ heap' = heap
          /\ active_alerts' = active_alerts
          /\ last' = [op |-> "resolve_alert", alert_id |-> id, ret |-> FALSE]
  /\ UNCHANGED <<now, alert_rules, alert_history, cooldown_tracker, alert_queue, outsideAM>>

\* The alert ids the acknowledge / resolve calls are made with; the last one
\* is the id of no alert.
CallIds == {<<"TEMP_HIGH", 0>>, <<"PRESSURE_LOW", 0>>, <<"FLOW_STOPPED", 0>>}

vars == <<now, amVars, last, dbVars, sysVars, performance_stats, thVars, extVars>>

Next ==
  \/ Tick
  \/ \E rule \in RuleCatalog : AddAlertRule(rule)
  \/ \E rid \in RuleIds : RemoveAlertRule(rid)
  \/ \E data \in Snapshots : EvaluateAlerts(data)
  \/ \E id \in CallIds, user \in Users : AcknowledgeAlert(id, user)
  \/ \E id \in CallIds : ResolveAlert(id)

Spec == Init /\ [][Next]_vars

\* ------------------------------------------- the alert lifecycle, on its own
\* acknowledge_alert and resolve_alert take the manager they are called on as
\* their input: here it holds alerts in state Active, stored the way
\* _trigger_alert stores one (lines 246-251): in active_alerts under its
\* alert_id, in alert_history, and the rule's trigger time in cooldown_tracker.
SeedAlert(rule, p, v) ==
  Alert(<<rule.rule_id, 0>>, rule, 0, <<rule.message_template, v, p>>, p, v)
SeedRules ==
  <<CHOOSE r \in RuleCatalog : r.rule_id = "TEMP_HIGH" /\ r.enabled,
    CHOOSE r \in RuleCatalog : r.rule_id = "PRESSURE_LOW">>
SeedHeaps ==
  { <<SeedAlert(SeedRules[1], "T001", 96)>>,
    <<SeedAlert(SeedRules[1], "T001", 96), SeedAlert(SeedRules[2], "P001", 96)>> }

InitLifecycle ==
  /\ now = 0
  /\ alert_rules = SeedRules
  /\ heap \in SeedHeaps
  /\ active_alerts = [id \in {heap[i].alert_id : i \in 1..Len(heap)} |->
                        CHOOSE i \in 1..Len(heap) : heap[i].alert_id = id]
  /\ alert_history = [i \in 1..Len(heap) |-> i]
  /\ cooldown_tracker = [rid \in {heap[i].rule_id : i \in 1..Len(heap)} |-> 0]
  /\ alert_queue = <<>>
  /\ last = [op |-> "init"]
  /\ InitBuffer
  /\ InitSystem
  /\ InitExternal
  /\ NoThreads

NextLifecycle ==
  \/ Tick
  \/ \E id \in CallIds, user \in Users : AcknowledgeAlert(id, user)
  \/ \E id \in CallIds : ResolveAlert(id)

SpecLifecycle == InitLifecycle /\ [][NextLifecycle]_vars

\* ------------------------------------------- the buffer and the scan loops
\* The DataBuffer under direct add_point calls.
NextBuffer ==
  \E p \in PointIds, v \in Readings : AddPoint(p, v)

SpecBuffer == Init /\ [][NextBuffer]_vars

\* The scan loops start_monitoring submits.
NextScan ==
  \/ \E point \in PointCatalog : AddMonitoringPoint(point)
  \/ StartMonitoring
  \/ \E i \in 1..Len(tasks) : ScanLoopStart(i)
  \/ \E i \in 1..Len(tasks), v \in Readings : ScanIteration(i, v)

SpecScan == Init /\ [][NextScan]_vars

\* ------------------------------- two evaluate_alerts cycles at the same time
EvalThreads == {"eval1", "eval2"}

InitEvalRace ==
  /\ now = 0
  /\ alert_rules = SeedRules
  /\ heap = <<>>
  /\ active_alerts = EmptyDict
  /\ alert_history = <<>>
  /\ cooldown_tracker = EmptyDict
  /\ alert_queue = <<>>
  /\ last = [op |-> "init"]
  /\ InitBuffer
  /\ InitSystem
  /\ InitExternal
  /\ pc = [t \in EvalThreads |-> "idle"]
  /\ loc = [t \in EvalThreads |-> [i |-> 0, data |-> <<>>]]

\* The loop of evaluate_alerts goes on to the rule after loc[t].i, or returns.
EvalAdvance(t) ==
  IF loc[t].i < Len(alert_rules)
  THEN /\ pc' = [pc EXCEPT ![t] = "check"]
       /\ loc' = [loc EXCEPT ![t].i = @ + 1]
  ELSE /\ pc' = [pc EXCEPT ![t] = "idle"]
       /\ loc' = [loc EXCEPT ![t] = [i |-> 0, data |-> <<>>]]

\* evaluate_alerts(data) is entered.
EvalBegin(t, data) ==
  /\ pc[t] = "idle"
  /\ Len(alert_rules) > 0
  /\ pc' = [pc EXCEPT ![t] = "check"]
  /\ loc' = [loc EXCEPT ![t] = [i |-> 1, data |-> data]]
  /\ UNCHANGED <<now, amVars, last, dbVars, sysVars, performance_stats, extVars>>

\* Lines 188-195: the enabled test and the cooldown check.
EvalCheck(t) ==
  /\ pc[t] = "check"
  /\ LET rule == alert_rules[loc[t].i]
     IN IF ~rule.enabled \/ InCooldown(rule, cooldown_tracker, now)
        THEN EvalAdvance(t)
        ELSE /\ pc' = [pc EXCEPT ![t] = "eval"]
             /\ loc' = loc
  /\ UNCHANGED <<now, amVars, last, dbVars, sysVars, performance_stats, extVars>>

\* Lines 197-207: the condition is evaluated.
EvalCond(t) ==
  /\ pc[t] = "eval"
  /\ IF EvalCondition(alert_rules[loc[t].i].condition, loc[t].data) = "true"
     THEN /\ pc' = [pc EXCEPT ![t] = "trigger"]
          /\ loc' = loc
     ELSE EvalAdvance(t)
  /\ UNCHANGED <<now, amVars, last, dbVars, sysVars, performance_stats, extVars>>

\* Line 208: _trigger_alert, and the except clause around it.
EvalTrigger(t) ==
  /\ pc[t] = "trigger"
  /\ LET tr == TriggerAlert(alert_rules[loc[t].i], loc[t].data, Manager, now)
     IN /\ heap' = tr.m.heap
        /\ active_alerts' = tr.m.active
        /\ alert_history' = tr.m.history
        /\ cooldown_tracker' = tr.m.tracker
        /\ alert_queue' = tr.m.queue
  /\ EvalAdvance(t)
  /\ UNCHANGED <<now, alert_rules, last, dbVars, sysVars, performance_stats, extVars>>

NextEvalRace ==
  \/ Tick
  \/ \E t \in EvalThreads, data \in Snapshots : EvalBegin(t, data)
  \/ \E t \in EvalThreads : EvalCheck(t)
  \/ \E t \in EvalThreads : EvalCond(t)
  \/ \E t \in EvalThreads : EvalTrigger(t)

SpecEvalRace == InitEvalRace /\ [][NextEvalRace]_vars

\* --------------------- acknowledge_alert and resolve_alert at the same time
AckThreads == {"ack1"}
ResolveThreads == {"res1"}
Idle == [id |-> <<"", 0>>, user |-> "", ref |-> 0]

InitAckRace ==
  /\ now = 0
  /\ alert_rules = SeedRules
  /\ heap \in SeedHeaps
  /\ active_alerts = [id \in {heap[i].alert_id : i \in 1..Len(heap)} |->
                        CHOOSE i \in 1..Len(heap) : heap[i].alert_id = id]
  /\ alert_history = [i \in 1..Len(heap) |-> i]
  /\ cooldown_tracker = [rid \in {heap[i].rule_id : i \in 1..Len(heap)} |-> 0]
  /\ alert_queue = <<>>
  /\ last = [op |-> "init"]
  /\ InitBuffer
  /\ InitSystem
  /\ InitExternal
  /\ pc = [t \in AckThreads \cup ResolveThreads |-> "idle"]
  /\ loc = [t \in AckThreads \cup ResolveThreads |-> Idle]

\* The call of thread t ends: it returns, or an exception leaves it.
CallEnds(t) ==
  /\ pc' = [pc EXCEPT ![t] = "idle"]
  /\ loc' = [loc EXCEPT ![t] = Idle]

\* acknowledge_alert(id, user) is entered.
AckBegin(t, id, user) ==
  /\ t \in AckThreads /\ pc[t] = "idle"
  /\ pc' = [pc EXCEPT ![t] = "ack_test"]
  /\ loc' = [loc EXCEPT ![t] = [id |-> id, user |-> user, ref |-> 0]]
  /\ UNCHANGED <<now, amVars, last, dbVars, sysVars, performance_stats, extVars>>

\* Line 260: if alert_id in self.active_alerts
AckTest(t) ==
  /\ pc[t] = "ack_test"
  /\ IF loc[t].id \in DOMAIN active_alerts
     THEN pc' = [pc EXCEPT ![t] = "ack_get"] /\ loc' = loc
     ELSE CallEnds(t)
  /\ UNCHANGED <<now, amVars, last, dbVars, sysVars, performance_stats, extVars>>

\* Line 261: alert = self.active_alerts[alert_id] (KeyError when it is gone)
AckGet(t) ==
  /\ pc[t] = "ack_get"
  /\ IF loc[t].id \in DOMAIN active_alerts
     THEN /\ pc' = [pc EXCEPT ![t] = "ack_set_flag"]
          /\ loc' = [loc EXCEPT ![t].ref = active_alerts[loc[t].id]]
     ELSE CallEnds(t)
  /\ UNCHANGED <<now, amVars, last, dbVars, sysVars, performance_stats, extVars>>

\* Lines 262-264, one attribute assignment at a time.
AckSet(t) ==
  /\ pc[t] \in {"ack_set_flag", "ack_set_by", "ack_set_time"}
  /\ heap' = [heap EXCEPT ![loc[t].ref] =
       IF pc[t] = "ack_set_flag" THEN [@ EXCEPT !.acknowledged = TRUE]
       ELSE IF pc[t] = "ack_set_by" THEN [@ EXCEPT !.acknowledged_by = loc[t].user]
       ELSE [@ EXCEPT !.acknowledged_time = now]]
  /\ IF pc[t] = "ack_set_flag" THEN pc' = [pc EXCEPT ![t] = "ack_set_by"] /\ loc' = loc
     ELSE IF pc[t] = "ack_set_by" THEN pc' = [pc EXCEPT ![t] = "ack_set_time"] /\ loc' = loc
     ELSE CallEnds(t)
  /\ UNCHANGED <<now, alert_rules, active_alerts, alert_history, cooldown_tracker,
                 alert_queue, last, dbVars, sysVars, performance_stats, extVars>>

\* resolve_alert(id) is entered.
ResolveBegin(t, id) ==
  /\ t \in ResolveThreads /\ pc[t] = "idle"
  /\ pc' = [pc EXCEPT ![t] = "res_test"]
  /\ loc' = [loc EXCEPT ![t] = [id |-> id, user |-> "", ref |-> 0]]
  /\ UNCHANGED <<now, amVars, last, dbVars, sysVars, performance_stats, extVars>>

\* Line 273: if alert_id in self.active_alerts
ResolveTest(t) ==
  /\ pc[t] = "res_test"
  /\ IF loc[t].id \in DOMAIN active_alerts
     THEN pc' = [pc EXCEPT ![t] = "res_get"] /\ loc' = loc
     ELSE CallEnds(t)
  /\ UNCHANGED <<now, amVars, last, dbVars, sysVars, performance_stats, extVars>>

\* Line 274: alert = self.active_alerts[alert_id] (KeyError when it is gone)
ResolveGet(t) ==
  /\ pc[t] = "res_get"
  /\ IF loc[t].id \in DOMAIN active_alerts
     THEN /\ pc' = [pc EXCEPT ![t] = "res_set_flag"]
          /\ loc' = [loc EXCEPT ![t].ref = active_alerts[loc[t].id]]
     ELSE CallEnds(t)
  /\ UNCHANGED <<now, amVars, last, dbVars, sysVars, performance_stats, extVars>>

\* Lines 275-276, one attribute assignment at a time.
ResolveSet(t) ==
  /\ pc[t] \in {"res_set_flag", "res_set_time"}
  /\ heap' = [heap EXCEPT ![loc[t].ref] =
       IF pc[t] = "res_set_flag" THEN [@ EXCEPT !.resolved = TRUE]
       ELSE [@ EXCEPT !.resolved_time = now]]
  /\ pc' = [pc EXCEPT ![t] = IF pc[t] = "res_set_flag" THEN "res_set_time" ELSE "res_del"]
  /\ UNCHANGED <<now, alert_rules, active_alerts, alert_history, cooldown_tracker,
                 alert_queue, last, loc, dbVars, sysVars, performance_stats, extVars>>

\* Line 279: del self.active_alerts[alert_id] (KeyError when it is gone)
ResolveDel(t) ==
  /\ pc[t] = "res_del"
  /\ active_alerts' = IF loc[t].id \in DOMAIN active_alerts
                      THEN Del(active_alerts, loc[t].id) ELSE active_alerts
  /\ CallEnds(t)
  /\ UNCHANGED <<now, alert_rules, heap, alert_history, cooldown_tracker,
                 alert_queue, last, dbVars, sysVars, performance_stats, extVars>>

NextAckRace ==
  \/ Tick
  \/ \E t \in AckThreads, id \in CallIds, user \in Users : AckBegin(t, id, user)
  \/ \E t \in AckThreads : AckTest(t)
  \/ \E t \in AckThreads : AckGet(t)
  \/ \E t \in AckThreads : AckSet(t)
  \/ \E t \in ResolveThreads, id \in CallIds : ResolveBegin(t, id)
  \/ \E t \in ResolveThreads : ResolveTest(t)
  \/ \E t \in ResolveThreads : ResolveGet(t)
  \/ \E t \in ResolveThreads : ResolveSet(t)
  \/ \E t \in ResolveThreads : ResolveDel(t)

SpecAckRace == InitAckRace /\ [][NextAckRace]_vars

\* ------------------------- DataBuffer readers and writers at the same time
\* One writer per point (its scan loop) and one reader (the alert evaluation
\* loop, a websocket request, a report query).
Writers == {"scanT001", "scanP001"}
WriterPoint(t) == IF t = "scanT001" THEN "T001" ELSE "P001"
Readers == {"reader"}
NoCall == [op |-> "", p |-> "", data |-> Sample("", 0, 0, "", ""), size |-> 0, pos |-> 0,
           result |-> <<>>]

InitBufferRace ==
  /\ now = 0
  /\ alert_rules = <<>>
  /\ heap = <<>>
  /\ active_alerts = EmptyDict
  /\ alert_history = <<>>
  /\ cooldown_tracker = EmptyDict
  /\ alert_queue = <<>>
  /\ last = [op |-> "init"]
  /\ InitBuffer
  /\ InitSystem
  /\ InitExternal
  /\ pc = [t \in Writers \cup Readers |-> "idle"]
  /\ loc = [t \in Writers \cup Readers |-> NoCall]

\* add_point(point_id, data) is entered by the writer of the point.
WriteBegin(t, v) ==
  /\ t \in Writers /\ pc[t] = "idle"
  /\ Len(written[WriterPoint(t)]) < MaxWrites
  /\ pc' = [pc EXCEPT ![t] = "w_test"]
  /\ loc' = [loc EXCEPT ![t] = [NoCall EXCEPT !.op = "add_point", !.p = WriterPoint(t),
                                  !.data = Sample(WriterPoint(t), now, v, "GOOD", "ONLINE")]]
  /\ UNCHANGED <<now, amVars, last, dbVars, sysVars, performance_stats, extVars>>

\* Line 122: if point_id not in self.buffer
WriteTest(t) ==
  /\ pc[t] = "w_test"
  /\ pc' = [pc EXCEPT ![t] = IF loc[t].p \in DOMAIN buffer THEN "w_lock" ELSE "w_newlist"]
  /\ UNCHANGED <<now, amVars, last, dbVars, sysVars, loc, performance_stats, extVars>>

\* Line 123: self.buffer[point_id] = []
WriteNewList(t) ==
  /\ pc[t] = "w_newlist"
  /\ buffer' = Put(buffer, loc[t].p, <<>>)
  /\ buffer_order' = IF loc[t].p \in DOMAIN buffer THEN buffer_order
                     ELSE Append(buffer_order, loc[t].p)
  /\ pc' = [pc EXCEPT ![t] = "w_newlock"]
  /\ UNCHANGED <<now, amVars, last, locks, written, sysVars, loc, performance_stats, extVars>>

\* Line 124: self.locks[point_id] = threading.Lock()
WriteNewLock(t) ==
  /\ pc[t] = "w_newlock"
  /\ locks' = Put(locks, loc[t].p, "free")
  /\ pc' = [pc EXCEPT ![t] = "w_lock"]
  /\ UNCHANGED <<now, amVars, last, buffer, buffer_order, written, sysVars, loc, performance_stats, extVars>>

\* Line 126: with self.locks[point_id] (waits while the lock is held)
WriteLock(t) ==
  /\ pc[t] = "w_lock"
  /\ locks[loc[t].p] = "free"
  /\ locks' = [locks EXCEPT ![loc[t].p] = t]
  /\ pc' = [pc EXCEPT ![t] = "w_append"]
  /\ UNCHANGED <<now, amVars, last, buffer, buffer_order, written, sysVars, loc, performance_stats, extVars>>

\* Line 127: self.buffer[point_id].append(data)
WriteAppend(t) ==
  /\ pc[t] = "w_append"
  /\ buffer' = [buffer EXCEPT ![loc[t].p] = Append(@, loc[t].data)]
  /\ written' = [written EXCEPT ![loc[t].p] = Append(@, loc[t].data)]
  /\ pc' = [pc EXCEPT ![t] = "w_trim"]
  /\ UNCHANGED <<now, amVars, last, buffer_order, locks, sysVars, loc, performance_stats, extVars>>

\* Lines 130-131 and the end of the with block.
WriteTrim(t) ==
  /\ pc[t] = "w_trim"
  /\ buffer' = IF Len(buffer[loc[t].p]) > MaxSize
               THEN [buffer EXCEPT ![loc[t].p] = Tail(@)] ELSE buffer
  /\ locks' = [locks EXCEPT ![loc[t].p] = "free"]
  /\ pc' = [pc EXCEPT ![t] = "idle"]
  /\ loc' = [loc EXCEPT ![t] = NoCall]
  /\ UNCHANGED <<now, amVars, last, buffer_order, written, sysVars, performance_stats, extVars>>

\* The reader's call returns `value` or raises `exc`.
ReadEnds(t, value, exc) ==
  /\ pc' = [pc EXCEPT ![t] = "idle"]
  /\ loc' = [loc EXCEPT ![t] = NoCall]
  /\ last' = [op |-> loc[t].op, p |-> loc[t].p, value |-> value, exc |-> exc]

\* get_latest(p), get_history(p) or get_all_latest() is entered.
ReadBegin(t, op, p) ==
  /\ t \in Readers /\ pc[t] = "idle"
  /\ pc' = [pc EXCEPT ![t] = IF op = "get_latest" THEN "gl_test"
                             ELSE IF op = "get_history" THEN "gh_test" ELSE "ga_iter"]
  /\ loc' = [loc EXCEPT ![t] = [NoCall EXCEPT !.op = op,
                                  !.p = IF op = "get_all_latest" THEN "" ELSE p]]
  /\ UNCHANGED <<now, amVars, last, dbVars, sysVars, performance_stats, extVars>>

\* get_latest returns `value` (<<>> is None): to its caller, or to the loop
\* of get_all_latest, which keeps a value that is not None.
LatestReturns(t, value) ==
  IF loc[t].op = "get_all_latest"
  THEN /\ pc' = [pc EXCEPT ![t] = "ga_next"]
       /\ loc' = [loc EXCEPT ![t].result = @ \o value]
       /\ last' = last
  ELSE ReadEnds(t, value, "none")

\* Line 135: if point_id not in self.buffer or not self.buffer[point_id]
LatestTest(t) ==
  /\ pc[t] = "gl_test"
  /\ IF loc[t].p \notin DOMAIN buffer \/ buffer[loc[t].p] = <<>>
     THEN LatestReturns(t, <<>>)
     ELSE pc' = [pc EXCEPT ![t] = "gl_lock"] /\ loc' = loc /\ last' = last
  /\ UNCHANGED <<now, amVars, dbVars, sysVars, performance_stats, extVars>>

\* Line 138: with self.locks[point_id] (KeyError when there is no lock yet)
LatestLock(t) ==
  /\ pc[t] = "gl_lock"
  /\ IF loc[t].p \notin DOMAIN locks
     THEN ReadEnds(t, <<>>, "KeyError") /\ locks' = locks
     ELSE /\ locks[loc[t].p] = "free"
          /\ locks' = [locks EXCEPT ![loc[t].p] = t]
          /\ pc' = [pc EXCEPT ![t] = "gl_read"]
          /\ loc' = loc /\ last' = last
  /\ UNCHANGED <<now, amVars, buffer, buffer_order, written, sysVars, performance_stats, extVars>>

\* Line 139: return self.buffer[point_id][-1] (IndexError on an empty list)
LatestRead(t) ==
  /\ pc[t] = "gl_read"
  /\ locks' = [locks EXCEPT ![loc[t].p] = "free"]
  /\ IF buffer[loc[t].p] = <<>>
     THEN ReadEnds(t, <<>>, "IndexError")
     ELSE LatestReturns(t, <<buffer[loc[t].p][Len(buffer[loc[t].p])]>>)
  /\ UNCHANGED <<now, amVars, buffer, buffer_order, written, sysVars, performance_stats, extVars>>

\* Line 143: if point_id not in self.buffer: return []
HistoryTest(t) ==
  /\ pc[t] = "gh_test"
  /\ IF loc[t].p \notin DOMAIN buffer
     THEN ReadEnds(t, <<>>, "none")
     ELSE pc' = [pc EXCEPT ![t] = "gh_lock"] /\ loc' = loc /\ last' = last
  /\ UNCHANGED <<now, amVars, dbVars, sysVars, performance_stats, extVars>>

\* Line 148: with self.locks[point_id] (KeyError when there is no lock yet)
HistoryLock(t) ==
  /\ pc[t] = "gh_lock"
  /\ IF loc[t].p \notin DOMAIN locks
     THEN ReadEnds(t, <<>>, "KeyError") /\ locks' = locks
     ELSE /\ locks[loc[t].p] = "free"
          /\ locks' = [locks EXCEPT ![loc[t].p] = t]
          /\ pc' = [pc EXCEPT ![t] = "gh_read"]
          /\ loc' = loc /\ last' = last
  /\ UNCHANGED <<now, amVars, buffer, buffer_order, written, sysVars, performance_stats, extVars>>

\* Lines 149-152: the samples not older than the cutoff (60 minutes: all).
HistoryRead(t) ==
  /\ pc[t] = "gh_read"
  /\ locks' = [locks EXCEPT ![loc[t].p] = "free"]
  /\ ReadEnds(t, buffer[loc[t].p], "none")
  /\ UNCHANGED <<now, amVars, buffer, buffer_order, written, sysVars, performance_stats, extVars>>

\* Line 157: for point_id in self.buffer (the iterator notes the dict's size)
AllLatestIter(t) ==
  /\ pc[t] = "ga_iter"
  /\ pc' = [pc EXCEPT ![t] = "ga_next"]
  /\ loc' = [loc EXCEPT ![t].size = Len(buffer_order), ![t].pos = 0]
  /\ UNCHANGED <<now, amVars, last, dbVars, sysVars, performance_stats, extVars>>

\* The iterator's next: RuntimeError when the dict changed size, else the next
\* key, for which get_latest is called (line 158), or the end of the loop.
AllLatestNext(t) ==
  /\ pc[t] = "ga_next"
  /\ IF Len(buffer_order) # loc[t].size
     THEN ReadEnds(t, <<>>, "RuntimeError")
     ELSE IF loc[t].pos < loc[t].size
     THEN /\ pc' = [pc EXCEPT ![t] = "gl_test"]
          /\ loc' = [loc EXCEPT ![t].pos = @ + 1, ![t].p = buffer_order[loc[t].pos + 1]]
          /\ last' = last
     ELSE ReadEnds(t, loc[t].result, "none")
  /\ UNCHANGED <<now, amVars, dbVars, sysVars, performance_stats, extVars>>

NextBufferRace ==
  \/ \E t \in Writers, v \in Readings : WriteBegin(t, v)
  \/ \E t \in Writers : WriteTest(t)
  \/ \E t \in Writers : WriteNewList(t)
  \/ \E t \in Writers : WriteNewLock(t)
  \/ \E t \in Writers : WriteLock(t)
  \/ \E t \in Writers : WriteAppend(t)
  \/ \E t \in Writers : WriteTrim(t)
  \/ \E t \in Readers, op \in {"get_latest", "get_history", "get_all_latest"}, p \in PointIds :
       ReadBegin(t, op, p)
  \/ \E t \in Readers : LatestTest(t)
  \/ \E t \in Readers : LatestLock(t)
  \/ \E t \in Readers : LatestRead(t)
  \/ \E t \in Readers : HistoryTest(t)
  \/ \E t \in Readers : HistoryLock(t)
  \/ \E t \in Readers : HistoryRead(t)
  \/ \E t \in Readers : AllLatestIter(t)
  \/ \E t \in Readers : AllLatestNext(t)

SpecBufferRace == InitBufferRace /\ [][NextBufferRace]_vars

\* ------------------- the tasks that write to the DataBuffer at the same time
\* The scan loops (one per scan task, a point has two after a second
\* start_monitoring) and the data pipeline's _send_to_monitoring_system
\* (src/data_pipeline.py) each take datetime.now() for the sample's timestamp
\* and call add_point afterwards; other threads run in between.
NoSample == <<>>

InitWriters ==
  /\ now = 0
  /\ alert_rules = <<>>
  /\ heap = <<>>
  /\ active_alerts = EmptyDict
  /\ alert_history = <<>>
  /\ cooldown_tracker = EmptyDict
  /\ alert_queue = <<>>
  /\ last = [op |-> "init"]
  /\ InitBuffer
  /\ InitSystem
  /\ InitExternal
  /\ pc = [pipeline |-> "idle"]
  /\ loc = [pipeline |-> NoSample, scan |-> [i \in {} |-> NoSample]]

\* add_monitoring_point of T001, enabled and with a readable name (P001 is
\* written by the pipeline only).
WritersAddMonitoringPoint(point) ==
  /\ point.name # "None" /\ point.enabled /\ point.point_id = "T001"
  /\ AddMonitoringPoint(point)

\* start_monitoring, a second time too.
WritersStartMonitoring == StartMonitoringUpTo(MaxRestarts)

\* Lines 569-580: the loop test, the read and MonitoringData(timestamp =
\* datetime.now(), ...).
ScanStamp(i, v) ==
  /\ tasks[i].kind = "scan" /\ tasks[i].state = "running"
  /\ i \notin DOMAIN loc.scan
  /\ IF tasks[i].stop \/ status # "ACTIVE"
     THEN tasks' = [tasks EXCEPT ![i].state = "done"] /\ loc' = loc
     ELSE /\ Len(written[tasks[i].point.point_id]) < MaxWrites
          /\ tasks' = tasks
          /\ loc' = [loc EXCEPT !.scan = Put(@, i,
                       Sample(tasks[i].point.point_id, now, v, "GOOD", "ONLINE"))]
  /\ UNCHANGED <<now, amVars, last, dbVars, monitoring_points, status, scan_threads,
                 scan_log, starts, notification_system, connected_clients, pc,
                 performance_stats, extVars>>

\* Line 583: self.data_buffer.add_point(point.point_id, data)
ScanAdd(i) ==
  /\ tasks[i].kind = "scan" /\ tasks[i].state = "running"
  /\ i \in DOMAIN loc.scan
  /\ AddPointEffects(tasks[i].point.point_id, loc.scan[i])
  /\ loc' = [loc EXCEPT !.scan = Del(@, i)]
  /\ UNCHANGED <<now, amVars, last, sysVars, pc, performance_stats, extVars>>

\* data_pipeline.py lines 673-686: protocol_to_monitoring stamps the packet
\* with datetime.now() and MonitoringData is built from it (value v: the
\* packet's, 0 when it has none).
PipelineStamp(p, v) ==
  /\ pc.pipeline = "idle"
  /\ Len(written[p]) < MaxWrites
  /\ pc' = [pc EXCEPT !.pipeline = "add_point"]
  /\ loc' = [loc EXCEPT !.pipeline = <<Sample(p, now, v, "GOOD", "ONLINE")>>]
  /\ UNCHANGED <<now, amVars, last, dbVars, sysVars, performance_stats, extVars>>

\* data_pipeline.py lines 688-690: data_buffer.add_point(point_id, mon_data)
PipelineAdd ==
  /\ pc.pipeline = "add_point"
  /\ AddPointEffects(loc.pipeline[1].point_id, loc.pipeline[1])
  /\ pc' = [pc EXCEPT !.pipeline = "idle"]
  /\ loc' = [loc EXCEPT !.pipeline = NoSample]
  /\ UNCHANGED <<now, amVars, last, sysVars, performance_stats, extVars>>

\* The clock moves while the tasks run.
WritersTick ==
  /\ now < MaxClock
  /\ now' = now + 1
  /\ UNCHANGED <<amVars, last, dbVars, sysVars, thVars, performance_stats, extVars>>

NextWriters ==
  \/ WritersTick
  \/ \E point \in PointCatalog : WritersAddMonitoringPoint(point)
  \/ WritersStartMonitoring
  \/ \E i \in 1..Len(tasks) : ScanLoopStart(i)
  \/ \E i \in 1..Len(tasks) : ScanStamp(i, 96)
  \/ \E i \in 1..Len(tasks) : ScanAdd(i)
  \/ \E p \in PointIds : PipelineStamp(p, DefaultValue)
  \/ PipelineAdd

SpecWriters == InitWriters /\ [][NextWriters]_vars

\* ------------------------------------------- the executor and its ten workers
\* Point ids for a plant with as many points as the executor has workers.
ManyPointIds == <<"S01", "S02", "S03", "S04", "S05", "S06", "S07", "S08", "S09", "S10", "S11", "S12">>
ExecutorPoint(k, en) ==
  [point_id |-> ManyPointIds[k], name |-> "Sensor", scan_rate_ms |-> 1000, enabled |-> en]

\* ThreadPoolExecutor: a work item is taken by a worker in submission order,
\* and only while fewer than max_workers callables are running; a callable
\* keeps its worker until it returns.
Running == {i \in 1..Len(tasks) : tasks[i].state \in {"running", "serving"}}
WorkerTakes(i) ==
  /\ tasks[i].state = "submitted"
  /\ \A j \in 1..(i - 1) : tasks[j].state # "submitted"
  /\ Cardinality(Running) < max_workers

\* add_monitoring_point of the next point of the plant.
ExecAddPoint(en) ==
  /\ Len(monitoring_points) < MaxPoints
  /\ status = "OFFLINE"
  /\ AddMonitoringPoint(ExecutorPoint(Len(monitoring_points) + 1, en))

\* A worker takes a scan_loop and runs it up to its `while`.
ExecScanStart(i) ==
  /\ WorkerTakes(i)
  /\ ScanLoopStart(i)

\* A worker takes _alert_evaluation_loop, _notification_processing_loop or
\* _start_websocket_server and runs it.
ExecLoopStart(i) ==
  /\ WorkerTakes(i)
  /\ tasks[i].kind # "scan"
  /\ tasks' = [tasks EXCEPT ![i].state = "running"]
  /\ UNCHANGED <<now, monitoring_points, status, scan_threads, scan_log, starts, notification_system, connected_clients, dbVars, outsideDB,
                 performance_stats>>

\* One pass of the `while` of a running scan_loop: the loop ends when its stop
\* flag is set or the status is not ACTIVE, else it goes round (the samples it
\* appends are left out here).
ExecScanIteration(i) ==
  /\ tasks[i].kind = "scan" /\ tasks[i].state = "running"
  /\ tasks' = IF tasks[i].stop \/ status # "ACTIVE"
              THEN [tasks EXCEPT ![i].state = "done"] ELSE tasks
  /\ UNCHANGED <<now, monitoring_points, status, scan_threads, scan_log, starts, notification_system, connected_clients, dbVars, outsideDB,
                 performance_stats>>

NextExecutor ==
  \/ \E en \in BOOLEAN : ExecAddPoint(en)
  \/ StartMonitoring
  \/ \E i \in 1..Len(tasks) : ExecScanStart(i)
  \/ \E i \in 1..Len(tasks) : ExecLoopStart(i)
  \/ \E i \in 1..Len(tasks) : ExecScanIteration(i)

\* The executor's threads are scheduled fairly: a work item a worker can take
\* is taken, a running loop goes on.
SpecExecutor ==
  /\ Init /\ [][NextExecutor]_vars
  /\ WF_vars(\E i \in 1..Len(tasks) : ExecScanStart(i))
  /\ WF_vars(\E i \in 1..Len(tasks) : ExecLoopStart(i))
  /\ WF_vars(\E i \in 1..Len(tasks) : ExecScanIteration(i))

\* ------------------------------- removing a point and stopping the system
\* The caller's thread is in stop_monitoring ("shutdown": inside
\* executor.shutdown(wait=True)) or outside it.
InitLifetime ==
  /\ now = 0
  /\ alert_rules = SeedRules
  /\ heap \in SeedHeaps
  /\ active_alerts = [id \in {heap[i].alert_id : i \in 1..Len(heap)} |->
                        CHOOSE i \in 1..Len(heap) : heap[i].alert_id = id]
  /\ alert_history = [i \in 1..Len(heap) |-> i]
  /\ cooldown_tracker = [rid \in {heap[i].rule_id : i \in 1..Len(heap)} |-> 0]
  /\ alert_queue = [i \in 1..Len(heap) |-> i]
  /\ last = [op |-> "init"]
  /\ InitBuffer
  /\ InitSystem
  /\ InitExternal
  /\ pc = [stop |-> "idle"]
  /\ loc = EmptyDict

\* add_monitoring_point, before the start, of an enabled point with a readable
\* name.
LifeAddPoint(point) ==
  /\ point.enabled /\ point.name # "None"
  /\ status = "OFFLINE" /\ pc.stop = "idle"
  /\ AddMonitoringPoint(point)

LifeStartMonitoring ==
  /\ pc.stop = "idle"
  /\ StartMonitoring

\* remove_monitoring_point(p) (lines 506-515): the stop flag is set on the
\* thread_info that scan_threads holds for p, if it holds one.
RemoveMonitoringPoint(p) ==
  /\ pc.stop = "idle"
  /\ IF \E k \in 1..Len(monitoring_points) : monitoring_points[k].point_id = p
     THEN /\ monitoring_points' = SelectSeq(monitoring_points, LAMBDA pt : pt.point_id # p)
          /\ tasks' = IF p \in DOMAIN scan_threads
                      THEN [tasks EXCEPT ![scan_threads[p]].stop = TRUE]
                      ELSE tasks
     ELSE UNCHANGED <<monitoring_points, tasks, performance_stats, extVars>>
  /\ last' = [op |-> "remove_monitoring_point", point_id |-> p, written |-> Len(written[p]),
              found |-> \E k \in 1..Len(monitoring_points) : monitoring_points[k].point_id = p,
              registered |-> p \in DOMAIN scan_threads]
  /\ UNCHANGED <<now, amVars, dbVars, status, scan_threads, scan_log, starts, notification_system, connected_clients, thVars,
                 performance_stats, extVars>>

\* stop_monitoring up to executor.shutdown (lines 545-553): status OFFLINE and
\* the stop flag of every registered thread_info.
StopBegin ==
  /\ pc.stop = "idle"
  /\ status = "ACTIVE"
  /\ status' = "OFFLINE"
  /\ tasks' = [i \in 1..Len(tasks) |->
                 IF \E p \in DOMAIN scan_threads : scan_threads[p] = i
                 THEN [tasks[i] EXCEPT !.stop = TRUE] ELSE tasks[i]]
  /\ pc' = [pc EXCEPT !.stop = "shutdown"]
  /\ UNCHANGED <<now, amVars, last, dbVars, monitoring_points, scan_threads, scan_log, starts, notification_system, connected_clients, loc,
                 performance_stats, extVars>>

\* executor.shutdown(wait=True) returns when every submitted callable has
\* returned (lines 555-558).
StopReturn ==
  /\ pc.stop = "shutdown"
  /\ \A i \in 1..Len(tasks) : tasks[i].state = "done"
  /\ pc' = [pc EXCEPT !.stop = "returned"]
  /\ UNCHANGED <<now, amVars, last, dbVars, sysVars, loc, performance_stats, extVars>>

\* One pass of the `while` of _alert_evaluation_loop (lines 636-648); the rule
\* evaluation itself is EvaluateAlerts.
AlertLoopIteration(i) ==
  /\ tasks[i].kind = "alert_evaluation" /\ tasks[i].state = "running"
  /\ tasks' = IF status # "ACTIVE" THEN [tasks EXCEPT ![i].state = "done"] ELSE tasks
  /\ UNCHANGED <<now, monitoring_points, status, scan_threads, scan_log, starts, notification_system, connected_clients, dbVars, outsideDB,
                 performance_stats>>

\* One pass of the `while` of _notification_processing_loop (lines 652-666):
\* an alert is taken from the queue and processed, or the get times out.
NotificationIteration(i) ==
  /\ tasks[i].kind = "notification" /\ tasks[i].state = "running"
  /\ IF status # "ACTIVE"
     THEN /\ tasks' = [tasks EXCEPT ![i].state = "done"]
          /\ UNCHANGED <<alert_queue, scan_log, performance_stats, extVars>>
     ELSE /\ tasks' = tasks
          /\ IF alert_queue # <<>>
             THEN /\ alert_queue' = Tail(alert_queue)
                  /\ scan_log' = [scan_log EXCEPT ![i] = Append(@, [alert |-> Head(alert_queue)])]
             ELSE UNCHANGED <<alert_queue, scan_log, performance_stats, extVars>>
  /\ UNCHANGED <<now, alert_rules, heap, active_alerts, alert_history, cooldown_tracker, last,
                 dbVars, monitoring_points, status, scan_threads, starts, notification_system, connected_clients, thVars,
                 performance_stats, extVars>>

\* _start_websocket_server (lines 746-762): the server is up and
\* loop.run_forever() runs, or websockets.serve raised (the port is taken) and
\* the function returns.
WebsocketServe(i, up) ==
  /\ tasks[i].kind = "websocket" /\ tasks[i].state = "running"
  /\ tasks' = [tasks EXCEPT ![i].state = IF up THEN "serving" ELSE "done"]
  /\ UNCHANGED <<now, monitoring_points, status, scan_threads, scan_log, starts, notification_system, connected_clients, dbVars, outsideDB,
                 performance_stats>>

\* A system with no alert queued, for the runs that remove points.
InitRemove ==
  /\ now = 0
  /\ alert_rules = <<>>
  /\ heap = <<>>
  /\ active_alerts = EmptyDict
  /\ alert_history = <<>>
  /\ cooldown_tracker = EmptyDict
  /\ alert_queue = <<>>
  /\ last = [op |-> "init"]
  /\ InitBuffer
  /\ InitSystem
  /\ InitExternal
  /\ pc = [stop |-> "idle"]
  /\ loc = EmptyDict

\* Points are registered, the system is started and points are removed while
\* their scan loops are submitted or running.
NextRemove ==
  \/ \E point \in PointCatalog : LifeAddPoint(point)
  \/ LifeStartMonitoring
  \/ \E p \in PointIds : RemoveMonitoringPoint(p)
  \/ \E i \in 1..Len(tasks) : ExecScanStart(i)
  \/ \E i \in 1..Len(tasks) : ScanIteration(i, 96)

\* The calls (add, start, remove, stop) come when the caller makes them; the
\* threads of the executor are scheduled fairly.
SpecRemove ==
  /\ InitRemove /\ [][NextRemove]_vars
  /\ WF_vars(\E i \in 1..Len(tasks) : ExecScanStart(i))
  /\ WF_vars(\E i \in 1..Len(tasks) : ScanIteration(i, 96))

\* The system is started and stopped with alerts on the queue.
NextLifetime ==
  \/ \E point \in PointCatalog : LifeAddPoint(point)
  \/ LifeStartMonitoring
  \/ StopBegin
  \/ StopReturn
  \/ \E i \in 1..Len(tasks) : ExecScanStart(i)
  \/ \E i \in 1..Len(tasks) : ExecLoopStart(i)
  \/ \E i \in 1..Len(tasks) : ExecScanIteration(i)
  \/ \E i \in 1..Len(tasks) : AlertLoopIteration(i)
  \/ \E i \in 1..Len(tasks) : NotificationIteration(i)
  \/ \E i \in 1..Len(tasks), up \in BOOLEAN : WebsocketServe(i, up)

SpecLifetime ==
  /\ InitLifetime /\ [][NextLifetime]_vars
  /\ WF_vars(StopReturn)
  /\ WF_vars(\E i \in 1..Len(tasks) : ExecScanStart(i))
  /\ WF_vars(\E i \in 1..Len(tasks) : ExecLoopStart(i))
  /\ WF_vars(\E i \in 1..Len(tasks) : ExecScanIteration(i))
  /\ WF_vars(\E i \in 1..Len(tasks) : AlertLoopIteration(i))
  /\ WF_vars(\E i \in 1..Len(tasks) : NotificationIteration(i))
  /\ WF_vars(\E i \in 1..Len(tasks), up \in BOOLEAN : WebsocketServe(i, up))

\* ------------------------------------- scan loops of which one keeps failing
\* The scan loops of a started system, one of them on a point whose read
\* raises every time.
IsolationAddPoint(point) ==
  /\ point.enabled
  /\ status = "OFFLINE"
  /\ AddMonitoringPoint(point)

NextIsolation ==
  \/ \E point \in PointCatalog : IsolationAddPoint(point)
  \/ StartMonitoring
  \/ \E i \in 1..Len(tasks) : ScanLoopStart(i)
  \/ \E i \in 1..Len(tasks) : ScanIteration(i, 96)

SpecIsolation == InitRemove /\ [][NextIsolation]_vars

\* ------------------------------------------------- notification dispatch
\* class AlertPriority(Enum), by value.
AlertPriority == [LOW |-> 1, MEDIUM |-> 2, HIGH |-> 3, CRITICAL |-> 4, EMERGENCY |-> 5]
WebhookUrls == {"hookA", "hookB"}
Clients == {"ws1", "ws2"}

\* The alerts handed to _process_alert_notification: one of each priority.
NotifyAlerts ==
  {[SeedAlert(SeedRules[1], "T001", 96) EXCEPT !.priority = pr] : pr \in 1..5}

\* The index of the first endpoint of urls whose post raises, 0 if none does.
FirstFailing(urls, failing) ==
  LET bad == {k \in 1..Len(urls) : urls[k] \in failing}
  IN IF bad = {} THEN 0 ELSE CHOOSE k \in bad : \A j \in bad : k <= j

\* A send_webhook_alert without its except clause: the error of the first
\* failing post reaches the caller.
send_webhook_alert_unguarded(urls, failing) ==
  LET first == FirstFailing(urls, failing)
  IN [posts |-> IF first = 0 THEN urls ELSE SubSeq(urls, 1, first),
      ret |-> first = 0, logged |-> FALSE, raised |-> first # 0]

\* NotificationSystem.send_webhook_alert (lines 396-423): the URLs are posted
\* to in order inside one try; the first post that raises (requests error or
\* raise_for_status) ends the loop, the handler logs and returns False.
\* `failing` is the set of endpoints whose post raises; `raised` tells whether
\* an exception leaves the method.
send_webhook_alert(urls, failing) ==
  LET first == FirstFailing(urls, failing)
  IN [posts |-> IF first = 0 THEN urls ELSE SubSeq(urls, 1, first),
      ret |-> first = 0, logged |-> first # 0, raised |-> FALSE]

\* The send methods _process_alert_notification calls for a priority (lines
\* 672-685): send_webhook_alert in each of the three branches, the calls of
\* send_email_alert and send_sms_alert being commented out.
ChannelsCalled(priority) ==
  IF priority \in {AlertPriority.EMERGENCY, AlertPriority.CRITICAL} THEN {"webhook"}
  ELSE IF priority = AlertPriority.HIGH THEN {"webhook"}
  ELSE {"webhook"}

\* _broadcast_alert (lines 764-785) as called by the notification loop, on a
\* worker thread of the executor: with no client it returns at once; else for
\* each client asyncio.create_task(client.send(message)) raises RuntimeError
\* (no running event loop in this thread), the handler logs it and puts the
\* client in disconnected_clients. `scheduled`: the clients whose send became
\* a task.
broadcast_alert(clients) ==
  [scheduled |-> {}, disconnected_clients |-> clients, clients |-> clients \ clients]

\* _process_alert_notification(alert) (lines 668-693); failing: the webhook
\* endpoints that are down; closed: the clients whose connection is closed.
ProcessAlertNotification(alert, failing, closed) ==
  /\ failing \subseteq {notification_system.webhook_urls[k] :
                          k \in 1..Len(notification_system.webhook_urls)}
  /\ closed \subseteq connected_clients
  /\ LET hook == send_webhook_alert(notification_system.webhook_urls, failing)
         \* an exception out of a send ends the try block before the broadcast
         cast == IF hook.raised
                   THEN [scheduled |-> {}, disconnected_clients |-> {},
                         clients |-> connected_clients]
                   ELSE broadcast_alert(connected_clients)
     IN /\ connected_clients' = cast.clients
        /\ last' = [op |-> "process_alert_notification", alert |-> alert,
                    channels |-> ChannelsCalled(alert.priority),
                    email_config |-> notification_system.email_config,
                    sms_config |-> notification_system.sms_config,
                    failing |-> failing, webhook_ret |-> hook.ret,
                    logged |-> (IF hook.logged THEN {"webhook"} ELSE {})
                                 \cup (IF hook.raised THEN {"notification"} ELSE {}),
                    broadcast |-> ~hook.raised, clients_before |-> connected_clients,
                    closed |-> closed, scheduled |-> cast.scheduled,
                    clients_after |-> cast.clients]
  /\ UNCHANGED <<now, amVars, dbVars, monitoring_points, status, tasks, scan_threads, scan_log,
                 starts, notification_system, thVars, performance_stats, extVars>>

\* NotificationSystem.configure_email / configure_sms
ConfigureEmail ==
  /\ notification_system' = [notification_system EXCEPT !.email_config = TRUE]
  /\ UNCHANGED <<now, amVars, last, dbVars, monitoring_points, status, tasks, scan_threads,
                 scan_log, starts, connected_clients, thVars, performance_stats, extVars>>
ConfigureSms ==
  /\ notification_system' = [notification_system EXCEPT !.sms_config = TRUE]
  /\ UNCHANGED <<now, amVars, last, dbVars, monitoring_points, status, tasks, scan_threads,
                 scan_log, starts, connected_clients, thVars, performance_stats, extVars>>

\* NotificationSystem.add_webhook(url)
AddWebhook(url) ==
  /\ Len(notification_system.webhook_urls) < MaxWebhooks
  /\ notification_system' = [notification_system EXCEPT !.webhook_urls = Append(@, url)]
  /\ UNCHANGED <<now, amVars, last, dbVars, monitoring_points, status, tasks, scan_threads,
                 scan_log, starts, connected_clients, thVars, performance_stats, extVars>>

\* _websocket_handler: a client connects (line 697).
WebsocketConnect(c) ==
  /\ c \notin connected_clients
  /\ connected_clients' = connected_clients \cup {c}
  /\ UNCHANGED <<now, amVars, last, dbVars, monitoring_points, status, tasks, scan_threads,
                 scan_log, starts, notification_system, thVars, performance_stats, extVars>>

\* _websocket_handler: the connection of a registered client ends (line 711).
WebsocketDisconnect(c) ==
  /\ c \in connected_clients
  /\ connected_clients' = connected_clients \ {c}
  /\ UNCHANGED <<now, amVars, last, dbVars, monitoring_points, status, tasks, scan_threads,
                 scan_log, starts, notification_system, thVars, performance_stats, extVars>>

\* AlertingSystem.notification_channels as filled by add_notification_channel:
\* an e-mail channel for critical alerts and a webhook channel for warning
\* and critical ones, each enabled or not.
NotificationChannels ==
  {<<[name |-> "ops_mail", channel |-> "email", enabled |-> e1,
      severity_filter |-> {"critical"}],
     [name |-> "ops_hook", channel |-> "webhook", enabled |-> e2,
      severity_filter |-> {"warning", "critical"}]>> : e1 \in BOOLEAN, e2 \in BOOLEAN}

\* AlertingSystem.send_alert (src/monitoring_alerting.py lines 275-295): each
\* enabled channel whose filter has the severity gets its send inside a try
\* of its own; a send that raises is logged and the loop goes on.
send_alert(channels, severity, failing) ==
  LET selected == {k \in 1..Len(channels) :
                     channels[k].enabled /\ severity \in channels[k].severity_filter}
  IN [attempted |-> {channels[k].name : k \in selected},
      logged |-> {channels[k].name : k \in {j \in selected : channels[j].name \in failing}}]

AlertingSendAlert(channels, severity, failing) ==
  /\ LET sent == send_alert(channels, severity, failing)
     IN last' = [op |-> "send_alert", channels |-> channels, severity |-> severity,
                 failing |-> failing, attempted |-> sent.attempted, logged |-> sent.logged]
  /\ UNCHANGED <<now, amVars, dbVars, monitoring_points, status, tasks, scan_threads, scan_log,
                 starts, notification_system, connected_clients, thVars,
                 performance_stats, extVars>>

NextNotify ==
  \/ ConfigureEmail
  \/ ConfigureSms
  \/ \E url \in WebhookUrls : AddWebhook(url)
  \/ \E c \in Clients : WebsocketConnect(c)
  \/ \E c \in Clients : WebsocketDisconnect(c)
  \/ \E alert \in NotifyAlerts, failing \in SUBSET WebhookUrls, closed \in SUBSET Clients :
       ProcessAlertNotification(alert, failing, closed)
  \/ \E channels \in NotificationChannels, severity \in {"warning", "critical"},
        failing \in SUBSET {"ops_mail", "ops_hook"} :
       AlertingSendAlert(channels, severity, failing)

SpecNotify == Init /\ [][NextNotify]_vars

\* ------------------------------------------------------------- Modbus RTU
\* Bytes are integers 0..255, a frame is a sequence of bytes.
\* a ^ b on non-negative integers.
\* for a and b below 2^16; x[k]: the xor of the bits from bit k up.
Xor(a, b) ==
  LET x[k \in 0..16] ==
        IF k = 16 THEN 0
        ELSE (((a \div (2 ^ k)) + (b \div (2 ^ k))) % 2) + 2 * x[k + 1]
  IN x[0]

\* The inner loop of _calculate_crc (lines 164-168): k rounds still to do.
\* (CHOOSE over the one-element set: the loop variable is carried from round
\* to round as a value.)
RECURSIVE CrcShift(_, _)
CrcShift(crc, k) ==
  IF k = 0 THEN crc
  ELSE CHOOSE r \in {CrcShift(n, k - 1) :
                      n \in {IF crc % 2 = 1 THEN Xor(crc \div 2, 40961) ELSE crc \div 2}} : TRUE

\* The outer loop of _calculate_crc from byte i on (lines 162-169).
RECURSIVE CrcFrom(_, _, _)
CrcFrom(crc, data, i) ==
  IF i > Len(data) THEN crc
  ELSE CHOOSE r \in {CrcFrom(n, data, i + 1) : n \in {CrcShift(Xor(crc, data[i]), 8)}} : TRUE

\* ModbusRTUProtocol._calculate_crc(data)
calculate_crc(data) == CrcFrom(65535, data, 1)

\* struct.pack('<H', x), struct.unpack('<H', two bytes), struct.pack('>H', x)
PackLE(x) == <<x % 256, x \div 256>>
UnpackLE(b) == b[1] + 256 * b[2]
PackBE(x) == <<x \div 256, x % 256>>

\* data[a:b] of Python for 0 <= a <= b (0-based, clamped to the length).
Slice(data, a, b) == SubSeq(data, a + 1, IF b < Len(data) THEN b ELSE Len(data))

\* The decoding loop (lines 194-197 and 98-101): big-endian 16-bit values;
\* a last chunk of one byte makes struct.unpack raise struct.error.
DecodeRegisters(data) ==
  IF Len(data) % 2 = 1 THEN [exc |-> "struct.error", values |-> <<>>]
  ELSE [exc |-> "none",
        values |-> [k \in 1..(Len(data) \div 2) |-> 256 * data[2 * k - 1] + data[2 * k]]]

\* The comparison of line 191 with the CRC test left out.
CrcUnchecked(received_crc, calculated_crc) == TRUE
\* received_crc == calculated_crc (line 191)
CrcMatches(received_crc, calculated_crc) == received_crc = calculated_crc

\* What a read returns: None, or a list of register values.
ReturnsNone == [none |-> TRUE, values |-> <<>>]
Returns(values) == [none |-> FALSE, values |-> values]

\* ModbusRTUProtocol.read_input_registers from the response on (lines
\* 183-204).
read_input_registers(response) ==
  IF Len(response) >= 5
    THEN LET data_part == SubSeq(response, 1, Len(response) - 2)
             received_crc == UnpackLE(SubSeq(response, Len(response) - 1, Len(response)))
             calculated_crc == calculate_crc(data_part)
         IN IF CrcMatches(received_crc, calculated_crc) /\ response[2] = 4
              THEN LET byte_count == response[3]
                       decoded == DecodeRegisters(Slice(response, 3, 3 + byte_count))
                   IN IF decoded.exc = "none" THEN Returns(decoded.values) ELSE ReturnsNone
              ELSE ReturnsNone
    ELSE ReturnsNone

\* The register contents of the device, and the lists of them a read of
\* count registers is answered with.
RegisterValues == {0, 1, 258, 65535}
RegisterLists(count) == [1..count -> RegisterValues]
RECURSIVE RegisterBytes(_)
RegisterBytes(regs) ==
  IF Len(regs) = 0 THEN <<>> ELSE PackBE(Head(regs)) \o RegisterBytes(Tail(regs))

\* The RTU response of a device for function code 4: unit, function,
\* byte count, data, CRC low byte first.
RtuResponse(unit_id, regs) ==
  LET body == <<unit_id, 4, 2 * Len(regs)>> \o RegisterBytes(regs)
  IN body \o PackLE(calculate_crc(body))

\* What the line does to a frame: nothing, a byte of the trailer (1: the last
\* but one, 2: the last, 3: both) xor a mask, or a cut after `keep` bytes.
Damages ==
  {[kind |-> "none", at |-> 0, mask |-> 0]}
    \cup {[kind |-> "trailer", at |-> a, mask |-> m] : a \in 1..3, m \in {1, 128, 255}}
    \cup {[kind |-> "cut", at |-> k, mask |-> 0] : k \in {0, 4, 6}}
Damage(frame, d) ==
  IF d.kind = "none" THEN frame
  ELSE IF d.kind = "cut" THEN SubSeq(frame, 1, IF d.at < Len(frame) THEN d.at ELSE Len(frame))
  ELSE [k \in 1..Len(frame) |->
          IF (k = Len(frame) - 1 /\ d.at \in {1, 3}) \/ (k = Len(frame) /\ d.at \in {2, 3})
            THEN Xor(frame[k], d.mask) ELSE frame[k]]

\* The environment of the next read: the device holds regs, and the line
\* will do d to its answer.
SerialLine(regs, d) ==
  /\ last' = [op |-> "serial_line", regs |-> regs, damage |-> d]
  /\ UNCHANGED <<now, amVars, dbVars, sysVars, performance_stats, thVars, extVars>>

\* read_input_registers(0, count) against the device.
ReadInputRegisters ==
  /\ last.op = "serial_line"
  /\ LET response == Damage(RtuResponse(1, last.regs), last.damage)
     IN last' = [op |-> "read_input_registers", count |-> Len(last.regs),
                 regs |-> last.regs, damage |-> last.damage, response |-> response,
                 ret |-> read_input_registers(response)]
  /\ UNCHANGED <<now, amVars, dbVars, sysVars, performance_stats, thVars, extVars>>

NextRTU ==
  \/ \E count \in 1..MaxCount : \E regs \in RegisterLists(count), d \in Damages :
       SerialLine(regs, d)
  \/ ReadInputRegisters

SpecRTU == Init /\ [][NextRTU]_vars

\* ------------------------------------------------------------- Modbus TCP
\* ProtocolConfig.retries default (line 39), ProtocolConfig.unit_id default.
retries == 3
unit_id == 1

\* A protocol object: ModbusTCPProtocol.__init__ (lines 48-51) and the other
\* protocol classes; socket is "None", "connected" (connect succeeded, not
\* closed since) or "unconnected" (connect failed); name: the name it was
\* added to the ProtocolManager under.
Protocol(kind, name, socket, tid) ==
  [kind |-> kind, name |-> name, socket |-> socket, transaction_id |-> tid]

\* The holding registers of the server, from address 0.
ServerRegisters == <<258, 65535, 1, 0>>

\* struct.pack('>HHHB', transaction_id, 0, 6, unit_id) (lines 77-81, 115-116):
\* struct.error unless 0 <= transaction_id <= 65535.
PackHeader(tid, unit) ==
  IF tid > 65535 THEN [exc |-> "struct.error", bytes |-> <<>>]
  ELSE [exc |-> "none", bytes |-> PackBE(tid) \o <<0, 0>> \o <<0, 6>> \o <<unit>>]

\* The answer of the server to a read of count registers: MBAP header,
\* function code 3, byte count, data.
TcpResponse(tid, unit, regs) ==
  PackBE(tid) \o <<0, 0>> \o PackBE(3 + 2 * Len(regs)) \o <<unit, 3, 2 * Len(regs)>>
    \o RegisterBytes(regs)
\* The Modbus exception answer (function code 0x83, exception code 2).
TcpException(tid, unit) == PackBE(tid) \o <<0, 0>> \o <<0, 3>> \o <<unit, 131, 2>>

\* What socket.recv(1024) gives for a read of count registers:
\*   "ok"        the whole answer
\*   "fewer"     the server answers with one register fewer than asked
\*   "segment"   only the first segment has arrived: the last 2 bytes are missing
\*   "odd"       the last byte is missing
\*   "header"    only the 8 bytes up to the function code have arrived
\*   "exception" a Modbus exception answer
\*   "timeout"   nothing within config.timeout: recv raises socket.timeout
TcpAnswers == {"ok", "fewer", "segment", "odd", "header", "exception", "timeout"}
Recv(answer, tid, count) ==
  LET full == TcpResponse(tid % 65536, unit_id, SubSeq(ServerRegisters, 1, count))
  IN IF answer = "ok" THEN full
     ELSE IF answer = "fewer"
       THEN TcpResponse(tid % 65536, unit_id, SubSeq(ServerRegisters, 1, count - 1))
     ELSE IF answer = "segment" THEN SubSeq(full, 1, Len(full) - 2)
     ELSE IF answer = "odd" THEN SubSeq(full, 1, Len(full) - 1)
     ELSE IF answer = "header" THEN SubSeq(full, 1, 8)
     ELSE IF answer = "exception" THEN TcpException(tid % 65536, unit_id)
     ELSE <<>>

\* The parsing of read_holding_registers (lines 92-104); count is not used.
ParseHoldingRegisters(response, count) ==
  IF Len(response) >= 9 /\ response[8] = 3
    THEN LET byte_count == response[9]
             decoded == DecodeRegisters(Slice(response, 9, 9 + byte_count))
         IN IF decoded.exc = "none" THEN Returns(decoded.values) ELSE ReturnsNone
    ELSE ReturnsNone

\* ModbusTCPProtocol.read_holding_registers(0, count) on the object p (lines
\* 71-108): the new object, what was sent, what is returned, the number of
\* send attempts made and of connects made in the call.
read_holding_registers(p, count, answer) ==
  LET tid == p.transaction_id + 1
      header == PackHeader(tid, unit_id)
      sent == header.exc = "none"
  IN [p |-> [p EXCEPT !.transaction_id = tid],
      sent |-> IF sent THEN header.bytes \o <<3>> \o PackBE(0) \o PackBE(count) ELSE <<>>,
      ret |-> IF ~sent \/ answer = "timeout" THEN ReturnsNone
              ELSE ParseHoldingRegisters(Recv(answer, tid, count), count),
      attempts |-> IF sent THEN 1 ELSE 0,
      connects |-> 0]

\* ModbusTCPProtocol.write_single_register(0, value) on p (lines 110-127).
write_single_register(p, value, answer) ==
  LET tid == p.transaction_id + 1
      header == PackHeader(tid, unit_id)
      sent == header.exc = "none"
  IN [p |-> [p EXCEPT !.transaction_id = tid],
      sent |-> IF sent THEN header.bytes \o <<6>> \o PackBE(0) \o PackBE(value) ELSE <<>>,
      ret |-> sent /\ answer = "ok"]

\* A connection "plc1" that add_connection has opened and that has made
\* tid requests so far.
TidSeeds == {0, 65533}
InitTCP ==
  /\ now = 0
  /\ alert_rules = <<>>
  /\ heap = <<>>
  /\ active_alerts = EmptyDict
  /\ alert_history = <<>>
  /\ cooldown_tracker = EmptyDict
  /\ alert_queue = <<>>
  /\ last = [op |-> "init"]
  /\ InitBuffer
  /\ InitSystem
  /\ NoThreads
  /\ samples = <<>>
  /\ redis_alerts = <<>>
  /\ monitor_alerts = EmptyDict
  /\ \E tid \in TidSeeds : protocols = <<Protocol("modbus_tcp", "plc1", "connected", tid)>>
  /\ connections = [n \in {"plc1"} |-> 1]

\* The number of requests made in this run on the connection.
CallsMade(p) ==
  p.transaction_id - (CHOOSE t \in TidSeeds : t <= p.transaction_id
                        /\ \A u \in TidSeeds : u <= p.transaction_id => u <= t)

ReadHoldingRegisters(name, count, answer) ==
  /\ name \in DOMAIN connections
  /\ CallsMade(protocols[connections[name]]) < MaxCalls
  /\ LET ref == connections[name]
         call == read_holding_registers(protocols[ref], count, answer)
     IN /\ protocols' = [protocols EXCEPT ![ref] = call.p]
        /\ last' = [op |-> "read_holding_registers", count |-> count, answer |-> answer,
                    transaction_id |-> call.p.transaction_id, sent |-> call.sent,
                    ret |-> call.ret, attempts |-> call.attempts, connects |-> call.connects]
  /\ UNCHANGED <<now, amVars, dbVars, sysVars, performance_stats, thVars, samples, connections,
                 redis_alerts, monitor_alerts>>

WriteSingleRegister(name, value, answer) ==
  /\ name \in DOMAIN connections
  /\ CallsMade(protocols[connections[name]]) < MaxCalls
  /\ LET ref == connections[name]
         call == write_single_register(protocols[ref], value, answer)
     IN /\ protocols' = [protocols EXCEPT ![ref] = call.p]
        /\ last' = [op |-> "write_single_register", value |-> value, answer |-> answer,
                    transaction_id |-> call.p.transaction_id, sent |-> call.sent,
                    ret |-> call.ret]
  /\ UNCHANGED <<now, amVars, dbVars, sysVars, performance_stats, thVars, samples, connections,
                 redis_alerts, monitor_alerts>>

\* ProtocolManager.read_all_data (lines 371-402) with Modbus TCP connections:
\* one read_holding_registers per connection, its result stored as it is.
RECURSIVE ReadAllFrom(_, _, _, _)
ReadAllFrom(names, ps, answer, results) ==
  IF names = {} THEN [protocols |-> ps, results |-> results]
  ELSE LET name == CHOOSE n \in names : TRUE
           ref == connections[name]
           call == read_holding_registers(ps[ref], MaxCount, answer)
       IN ReadAllFrom(names \ {name}, [ps EXCEPT ![ref] = call.p], answer,
                      Put(results, name,
                          [status |-> IF call.ret.none THEN "error" ELSE "success",
                           data |-> call.ret, attempts |-> call.attempts,
                           connects |-> call.connects]))

ReadAllData(answer) ==
  /\ \A n \in DOMAIN connections : CallsMade(protocols[connections[n]]) < MaxCalls
  /\ LET all == ReadAllFrom(DOMAIN connections, protocols, answer, EmptyDict)
     IN /\ protocols' = all.protocols
        /\ last' = [op |-> "read_all_data", answer |-> answer, results |-> all.results]
  /\ UNCHANGED <<now, amVars, dbVars, sysVars, performance_stats, thVars, samples, connections,
                 redis_alerts, monitor_alerts>>

NextTCP ==
  \/ \E count \in 1..MaxCount, answer \in TcpAnswers : ReadHoldingRegisters("plc1", count, answer)
  \/ \E value \in RegisterValues, answer \in {"ok", "timeout"} :
       WriteSingleRegister("plc1", value, answer)
  \/ \E answer \in {"ok", "timeout", "odd"} : ReadAllData(answer)

SpecTCP == InitTCP /\ [][NextTCP]_vars

\* -------------------------------------------------------- ProtocolManager
ConnectionNames == {"plc1", "rtu1"}
\* The protocol types add_connection is called with; "opc_ua" has no class.
ProtocolKinds == {"modbus_tcp", "dnp3", "opc_ua"}

\* protocol.disconnect() (lines 65-69, 226-230): closes the socket if there
\* is one, and forgets it.
Disconnect(p) == [p EXCEPT !.socket = "None"]

\* ProtocolManager.add_connection(name, config) (lines 334-358); ok: whether
\* protocol.connect() succeeds.
AddConnection(name, kind, ok) ==
  /\ Len(protocols) < MaxConnects
  /\ IF kind \notin {"modbus_tcp", "modbus_rtu", "dnp3", "iec_61850"}
       THEN /\ last' = [op |-> "add_connection", name |-> name, ret |-> FALSE]
            /\ UNCHANGED <<protocols, connections>>
       ELSE /\ protocols' = Append(protocols,
                                   Protocol(kind, name,
                                            IF ok THEN "connected" ELSE "unconnected", 0))
            /\ connections' = IF ok THEN Put(connections, name, Len(protocols) + 1)
                              ELSE connections
            /\ last' = [op |-> "add_connection", name |-> name, ret |-> ok]
  /\ UNCHANGED <<now, amVars, dbVars, sysVars, performance_stats, thVars, samples,
                 redis_alerts, monitor_alerts>>

\* The effect of remove_connection(name) on (protocols, connections).
remove_connection(ps, conns, name) ==
  IF name \in DOMAIN conns
    THEN [protocols |-> [ps EXCEPT ![conns[name]] = Disconnect(@)],
          connections |-> Del(conns, name)]
    ELSE [protocols |-> ps, connections |-> conns]

\* ProtocolManager.remove_connection(name) (lines 360-365)
RemoveConnection(name) ==
  /\ LET r == remove_connection(protocols, connections, name)
     IN protocols' = r.protocols /\ connections' = r.connections
  /\ last' = [op |-> "remove_connection", name |-> name]
  /\ UNCHANGED <<now, amVars, dbVars, sysVars, performance_stats, thVars, samples,
                 redis_alerts, monitor_alerts>>

\* ProtocolManager.shutdown() (lines 404-408): remove_connection for every
\* name; the executor has no task.
RECURSIVE ShutdownFrom(_, _, _)
ShutdownFrom(names, ps, conns) ==
  IF names = {} THEN [protocols |-> ps, connections |-> conns]
  ELSE LET name == CHOOSE n \in names : TRUE
           r == remove_connection(ps, conns, name)
       IN ShutdownFrom(names \ {name}, r.protocols, r.connections)

Shutdown ==
  /\ LET r == ShutdownFrom(DOMAIN connections, protocols, connections)
     IN protocols' = r.protocols /\ connections' = r.connections
  /\ last' = [op |-> "shutdown"]
  /\ UNCHANGED <<now, amVars, dbVars, sysVars, performance_stats, thVars, samples,
                 redis_alerts, monitor_alerts>>

NextManager ==
  \/ \E name \in ConnectionNames, kind \in ProtocolKinds, ok \in BOOLEAN :
       AddConnection(name, kind, ok)
  \/ \E name \in ConnectionNames : RemoveConnection(name)
  \/ Shutdown

SpecManager == Init /\ [][NextManager]_vars

\* ------------------------------------------------------------- alert ids
\* The alert ids _trigger_alert has computed (line 215) in the calls so far,
\* in call order.
Triggered == IF "triggered" \in DOMAIN last THEN last.triggered ELSE <<>>

\* The ids computed in one evaluate_alerts cycle at time t, from its log: one
\* for each rule whose condition was true, in rule order.
RECURSIVE TriggeredIds(_, _, _, _)
TriggeredIds(i, rules, log, t) ==
  IF i > Len(rules) THEN <<>>
  ELSE (IF log[i].step = "evaluated" /\ log[i].cond = "true"
          THEN <<<<rules[i].rule_id, t>>>> ELSE <<>>)
         \o TriggeredIds(i + 1, rules, log, t)

InitTrigger ==
  /\ now = 0
  /\ alert_rules = SeedRules
  /\ heap = <<>>
  /\ active_alerts = EmptyDict
  /\ alert_history = <<>>
  /\ cooldown_tracker = EmptyDict
  /\ alert_queue = <<>>
  /\ last = [op |-> "init"]
  /\ InitBuffer
  /\ InitSystem
  /\ InitExternal
  /\ NoThreads

\* AlertManager.evaluate_alerts(data), the ids of its triggers kept.
EvaluateAlertsIds(data) ==
  /\ Len(Triggered) < MaxTriggers
  /\ LET r == EvalFrom(1, alert_rules, data, Manager, now,
                       [i \in 1..Len(alert_rules) |-> NotReached])
     IN /\ heap' = r.m.heap
        /\ active_alerts' = r.m.active
        /\ alert_history' = r.m.history
        /\ cooldown_tracker' = r.m.tracker
        /\ alert_queue' = r.m.queue
        /\ last' = [op |-> "evaluate_alerts", data |-> data, log |-> r.log, exc |-> r.exc,
                    triggered |-> Triggered \o TriggeredIds(1, alert_rules, r.log, now)]
  /\ UNCHANGED <<now, alert_rules, outsideAM>>

NextTrigger ==
  \/ WritersTick
  \/ \E data \in Snapshots : EvaluateAlertsIds(data)

SpecTrigger == InitTrigger /\ [][NextTrigger]_vars

\* ------------------------------------------------- samples held by readers
\* A Python list holds references: in this part buffer[p] is a list of
\* references into `samples`, the MonitoringData objects, and written[p] keeps
\* the field values each object had when add_point was called with it.
Deref(refs) == [i \in 1..Len(refs) |-> samples[refs[i]]]

\* DataBuffer.add_point(point_id, MonitoringData(point_id, now, v)) with the
\* object the caller has just constructed.
AddPointObject(p, v) ==
  /\ Len(samples) < MaxAdds
  /\ samples' = Append(samples, Sample(p, now, v, "GOOD", "ONLINE"))
  /\ buffer' = add_point(buffer, p, Len(samples) + 1)
  /\ buffer_order' = IF p \in DOMAIN buffer THEN buffer_order ELSE Append(buffer_order, p)
  /\ locks' = IF p \in DOMAIN buffer THEN locks ELSE Put(locks, p, "free")
  /\ written' = [written EXCEPT ![p] = Append(@, Sample(p, now, v, "GOOD", "ONLINE"))]
  /\ last' = [op |-> "add_point"]
  /\ UNCHANGED <<now, amVars, sysVars, performance_stats, thVars,
                 connections, protocols, redis_alerts, monitor_alerts>>

\* get_latest(point_id): None (no reference) or self.buffer[point_id][-1], the
\* stored object itself.
get_latest(buf, p) ==
  IF p \notin DOMAIN buf \/ buf[p] = <<>> THEN <<>> ELSE <<buf[p][Len(buf[p])]>>

\* get_history(point_id, minutes): a new list of the stored objects whose
\* timestamp is not before the cutoff.
HistoryMinutes == 60
get_history(buf, objs, p, t) ==
  IF p \notin DOMAIN buf THEN <<>>
  ELSE SelectSeq(buf[p], LAMBDA ref : objs[ref].timestamp >= t - HistoryMinutes)

\* get_all_latest(): for each key in dict order, get_latest of it.
RECURSIVE get_all_latest(_, _, _)
get_all_latest(buf, order, i) ==
  IF i > Len(order) THEN <<>>
  ELSE get_latest(buf, order[i]) \o get_all_latest(buf, order, i + 1)

\* What the writers' samples say a read of `op` has to give now.
Stored(p) ==
  IF p \notin DOMAIN buffer THEN <<>>
  ELSE SubSeq(written[p], Len(written[p]) - Len(buffer[p]) + 1, Len(written[p]))
Newest(p) == IF Stored(p) = <<>> THEN <<>> ELSE <<Stored(p)[Len(Stored(p))]>>
RECURSIVE AllNewest(_)
AllNewest(i) ==
  IF i > Len(buffer_order) THEN <<>> ELSE Newest(buffer_order[i]) \o AllNewest(i + 1)

\* A reader's call: it returns references (refs) to the caller, who sees the
\* objects behind them (seen).
Read(op, p, refs) ==
  /\ last' = [op |-> op, point |-> p, refs |-> refs, seen |-> Deref(refs),
              expected |-> IF op = "get_latest" THEN Newest(p)
                           ELSE IF op = "get_history" THEN Stored(p)
                           ELSE AllNewest(1)]
  /\ UNCHANGED <<now, amVars, dbVars, sysVars, performance_stats, thVars, extVars>>

GetLatest(p) == Read("get_latest", p, get_latest(buffer, p))
GetHistory(p) == Read("get_history", p, get_history(buffer, samples, p, now))
GetAllLatest == Read("get_all_latest", "", get_all_latest(buffer, buffer_order, 1))

\* The caller assigns to a field of a sample it was returned
\* (sample.value = v, sample.quality = "BAD").
CallerMutates(k) ==
  /\ "refs" \in DOMAIN last
  /\ k \in 1..Len(last.refs)
  /\ samples[last.refs[k]].quality # "BAD"
  /\ samples' = [samples EXCEPT ![last.refs[k]] =
                   [@ EXCEPT !.value = 0, !.quality = "BAD"]]
  /\ last' = [op |-> "mutate", ref |-> last.refs[k]]
  /\ UNCHANGED <<now, amVars, dbVars, sysVars, performance_stats, thVars,
                 connections, protocols, redis_alerts, monitor_alerts>>

NextAlias ==
  \/ \E p \in PointIds, v \in Readings : AddPointObject(p, v)
  \/ \E p \in PointIds : GetLatest(p)
  \/ \E p \in PointIds : GetHistory(p)
  \/ GetAllLatest
  \/ \E k \in 1..MaxSize : CallerMutates(k)

SpecAlias == Init /\ [][NextAlias]_vars

\* ------------------------------- RealTimeMonitor (src/monitoring_alerting.py)
\* timedelta(minutes=5) of _trigger_alert and the 1000 entries ltrim keeps.
SuppressMinutes == 5
RedisKeep == 1000

\* Threshold objects as add_threshold stored them, values in tenths:
\* ph_value has both limits, turbidity an upper one, flow is disabled.
Parameters == {"ph_value", "turbidity", "flow"}
Thresholds ==
  [ph_value |-> [min_value |-> 65, max_value |-> 85, warning_threshold |-> 8,
                 critical_threshold |-> 9, enabled |-> TRUE],
   turbidity |-> [min_value |-> NoneValue, max_value |-> 10, warning_threshold |-> 8,
                  critical_threshold |-> 9, enabled |-> TRUE],
   flow |-> [min_value |-> NoneValue, max_value |-> 10, warning_threshold |-> 8,
             critical_threshold |-> 9, enabled |-> FALSE]]
MonitorValues == {66, 70}

\* A datetime: its minute, and whether it carries a utc offset. isoformat()
\* writes the offset after the time, fromisoformat() reads it back.
Datetime(minute, aware) == [minute |-> minute, aware |-> aware]
isoformat(ts) == [iso |-> ts.minute, offset |-> IF ts.aware THEN "+00:00" ELSE ""]
fromisoformat(text) == Datetime(text.iso, text.offset # "")
Stamps == {Datetime(m, FALSE) : m \in 0..MaxStamp}
            \cup {Datetime(0, TRUE), Datetime(SuppressMinutes, TRUE)}

\* The violation _check_thresholds finds (lines 141-161): the range test,
\* then the warning / critical fractions of max_value, which overwrite it.
Violation(threshold, value) ==
  LET range ==
        IF threshold.min_value # NoneValue /\ value < threshold.min_value
        THEN [violation_type |-> "below_minimum", severity |-> "critical"]
        ELSE IF threshold.max_value # NoneValue /\ value > threshold.max_value
        THEN [violation_type |-> "above_maximum", severity |-> "critical"]
        ELSE [violation_type |-> "None", severity |-> "None"]
  IN IF threshold.max_value = NoneValue THEN range
     ELSE IF value * 10 > threshold.max_value * threshold.critical_threshold
     THEN [violation_type |-> "critical_threshold", severity |-> "critical"]
     ELSE IF value * 10 > threshold.max_value * threshold.warning_threshold
     THEN [violation_type |-> "warning_threshold", severity |-> "warning"]
     ELSE range

\* str(uuid.uuid4()): an id no alert in sight has.
UsedIds ==
  {redis_alerts[i].id : i \in 1..Len(redis_alerts)}
    \cup {monitor_alerts[k].id : k \in DOMAIN monitor_alerts}
uuid4 == CHOOSE n \in 1..(Cardinality(UsedIds) + 1) : n \notin UsedIds

\* Alert(...) of _check_thresholds with the defaults of the dataclass.
MonitorAlert(id, parameter, severity, ts) ==
  [id |-> id, type |-> "threshold_violation", severity |-> severity,
   source |-> <<"monitor", parameter>>, timestamp |-> isoformat(ts),
   acknowledged |-> FALSE, acknowledged_by |-> "None", acknowledged_at |-> "None",
   resolved |-> FALSE, resolved_by |-> "None", resolved_at |-> "None"]

\* f"{alert.source}_{alert.type}"
AlertKey(alert) == <<alert.source, alert.type>>

\* a - b of two datetimes: TypeError when one carries an offset and the other
\* does not.
Minus(a, b) ==
  IF a.aware # b.aware THEN [exc |-> "TypeError", minutes |-> 0]
  ELSE [exc |-> "none", minutes |-> a.minute - b.minute]

\* A duplicate test that lets every alert through.
SuppressedNever(minutes) == FALSE

\* `... - last_time < timedelta(minutes=5)` (line 192).
Suppressed(minutes) == minutes < SuppressMinutes

\* redis lpush(name, value) and ltrim(name, 0, stop)
lpush(list, value) == <<value>> \o list
ltrim(list, stop) == SubSeq(list, 1, IF Len(list) < stop + 1 THEN Len(list) ELSE stop + 1)

\* RealTimeMonitor._trigger_alert(alert): what it leaves in active_alerts and
\* in the Redis list, whether it called AlertingSystem.send_alert, and the
\* exception that leaves it.
trigger_alert(active, list, alert) ==
  LET key == AlertKey(alert)
      diff == IF key \in DOMAIN active
              THEN Minus(fromisoformat(alert.timestamp), fromisoformat(active[key].timestamp))
              ELSE [exc |-> "none", minutes |-> SuppressMinutes]
      untouched == [active |-> active, list |-> list, sent |-> FALSE, exc |-> diff.exc]
  IN IF diff.exc # "none" THEN untouched
     ELSE IF key \in DOMAIN active /\ Suppressed(diff.minutes) THEN untouched
     ELSE [active |-> Put(active, key, alert),
           list |-> ltrim(lpush(list, alert), RedisKeep - 1),
           sent |-> TRUE, exc |-> "none"]

\* RealTimeMonitor._check_thresholds(parameter, value, timestamp), as
\* update_data calls it (line 127), down to the end of _trigger_alert.
CheckThresholds(parameter, value, ts) ==
  LET enabled == parameter \in DOMAIN Thresholds /\ Thresholds[parameter].enabled
      found == IF enabled THEN Violation(Thresholds[parameter], value)
               ELSE [violation_type |-> "None", severity |-> "None"]
      violation == found.violation_type # "None"
      alert == CHOOSE a \in {MonitorAlert(uuid4, parameter, found.severity, ts)} : TRUE
      key == AlertKey(alert)
      r == CHOOSE x \in
             {IF ~violation
              THEN [active |-> monitor_alerts, list |-> redis_alerts,
                    sent |-> FALSE, exc |-> "none"]
              ELSE trigger_alert(monitor_alerts, redis_alerts, alert)} : TRUE
  IN /\ monitor_alerts' = r.active
     /\ redis_alerts' = r.list
     /\ last' = [op |-> "check_thresholds", violation_type |-> found.violation_type,
                 alert |-> IF violation THEN <<alert>> ELSE <<>>,
                 before |-> IF violation /\ key \in DOMAIN monitor_alerts
                            THEN <<monitor_alerts[key]>> ELSE <<>>,
                 stored |-> r.list # redis_alerts, sent |-> r.sent, exc |-> r.exc]
     /\ UNCHANGED <<now, amVars, dbVars, sysVars, performance_stats, thVars,
                    samples, connections, protocols>>

NextMonitor ==
  \E parameter \in Parameters, value \in MonitorValues, ts \in Stamps :
    CheckThresholds(parameter, value, ts)

SpecMonitor == Init /\ [][NextMonitor]_vars

\* ------------------------------- AlertDashboard (src/monitoring_alerting.py)
\* The dashboard works on the Redis list through its own client, while the
\* monitor goes on pushing: each Redis command is one step.
DashThreads == {"dashboard"}
DashUsers == {"operator"}
\* The ids the dashboard is called with; the last one is the id of no alert.
DashIds == 1..3
DashStamps == {Datetime(0, FALSE), Datetime(SuppressMinutes, FALSE)}

InitDashboard ==
  /\ now = 0
  /\ alert_rules = <<>>
  /\ heap = <<>>
  /\ active_alerts = EmptyDict
  /\ alert_history = <<>>
  /\ cooldown_tracker = EmptyDict
  /\ alert_queue = <<>>
  /\ last = [op |-> "init"]
  /\ InitBuffer
  /\ InitSystem
  /\ InitExternal
  /\ pc = [t \in DashThreads |-> "idle"]
  /\ loc = [t \in DashThreads |-> Idle]

\* acknowledge_alert(alert_id, user_id) or resolve_alert(alert_id, user_id) is
\* entered.
DashBegin(t, op, id, user) ==
  /\ pc[t] = "idle"
  /\ Cardinality({k \in 1..Len(redis_alerts) :
                    redis_alerts[k].acknowledged \/ redis_alerts[k].resolved}) < MaxHandled
  /\ pc' = [pc EXCEPT ![t] = "dash_lrange"]
  /\ loc' = [loc EXCEPT ![t] = [op |-> op, id |-> id, user |-> user, alerts_data |-> <<>>]]
  /\ UNCHANGED <<now, amVars, last, dbVars, sysVars, performance_stats, extVars>>

\* alerts_data = self.redis_client.lrange("alerts", 0, -1)
DashLRange(t) ==
  /\ pc[t] = "dash_lrange"
  /\ pc' = [pc EXCEPT ![t] = "dash_lset"]
  /\ loc' = [loc EXCEPT ![t].alerts_data = redis_alerts]
  /\ UNCHANGED <<now, amVars, last, dbVars, sysVars, performance_stats, extVars>>

\* The dict the loop body makes of the record it found.
Acknowledged(alert_dict, user, t) ==
  [alert_dict EXCEPT !.acknowledged = TRUE, !.acknowledged_by = user,
                     !.acknowledged_at = isoformat(Datetime(t, FALSE))]
Resolved(alert_dict, user, t) ==
  Put([alert_dict EXCEPT !.resolved = TRUE, !.resolved_by = user,
                         !.resolved_at = isoformat(Datetime(t, FALSE))],
      "resolution_note", "")

\* redis lset(name, index, value), index counted from 0: ResponseError when
\* the list has no such index.
lset(list, index, value) ==
  IF index + 1 > Len(list) THEN [exc |-> "ResponseError", list |-> list]
  ELSE [exc |-> "none", list |-> [list EXCEPT ![index + 1] = value]]

\* The loop over enumerate(alerts_data): the first record with the id, and
\* lset at its index i; False when no record has the id.
DashLSet(t) ==
  /\ pc[t] = "dash_lset"
  /\ LET data == loc[t].alerts_data
         found == {i \in 1..Len(data) : data[i].id = loc[t].id}
         i == CHOOSE k \in found : \A j \in found : k <= j
         alert_dict == IF loc[t].op = "acknowledge_alert"
                       THEN Acknowledged(data[i], loc[t].user, now)
                       ELSE Resolved(data[i], loc[t].user, now)
         r == IF found = {} THEN [exc |-> "none", list |-> redis_alerts]
              ELSE lset(redis_alerts, i - 1, alert_dict)
     IN /\ redis_alerts' = r.list
        /\ last' = [op |-> loc[t].op, alert_id |-> loc[t].id,
                    ret |-> found # {} /\ r.exc = "none", exc |-> r.exc,
                    before |-> redis_alerts, after |-> r.list]
  /\ CallEnds(t)
  /\ UNCHANGED <<now, amVars, dbVars, sysVars, performance_stats,
                 samples, connections, protocols, monitor_alerts>>

NextDashboard ==
  \/ \E parameter \in Parameters, value \in MonitorValues, ts \in DashStamps :
       CheckThresholds(parameter, value, ts)
  \/ \E t \in DashThreads, op \in {"acknowledge_alert", "resolve_alert"},
        id \in DashIds, user \in DashUsers : DashBegin(t, op, id, user)
  \/ \E t \in DashThreads : DashLRange(t)
  \/ \E t \in DashThreads : DashLSet(t)

SpecDashboard == InitDashboard /\ [][NextDashboard]_vars

\* ------------------------------------------- scan statistics, scan threads
\* Two scan_loop closures on two workers of the executor, the system ACTIVE.
\* add_point is taken whole here (its own steps are those of the DataBuffer
\* part above); `self.performance_stats['points_scanned'] += 1` is a read of
\* the dict entry, an addition and a write of the entry, with no lock.
InitScanRace ==
  /\ now = 0
  /\ alert_rules = <<>>
  /\ heap = <<>>
  /\ active_alerts = EmptyDict
  /\ alert_history = <<>>
  /\ cooldown_tracker = EmptyDict
  /\ alert_queue = <<>>
  /\ last = [op |-> "init"]
  /\ InitBuffer
  /\ InitSystem
  /\ InitExternal
  /\ pc = [t \in Writers |-> "idle"]
  /\ loc = [t \in Writers |-> [points_scanned |-> 0]]

\* Lines 572-584 of one iteration: the read, the MonitoringData, add_point.
ScanAddPoint(t, v) ==
  /\ pc[t] = "idle"
  /\ Len(written[WriterPoint(t)]) < MaxAdds
  /\ AddPointEffects(WriterPoint(t), Sample(WriterPoint(t), now, v, "GOOD", "ONLINE"))
  /\ pc' = [pc EXCEPT ![t] = "stats_load"]
  /\ UNCHANGED <<now, amVars, last, sysVars, performance_stats, loc, extVars>>

\* Line 591, the read of self.performance_stats['points_scanned'].
StatsLoad(t) ==
  /\ pc[t] = "stats_load"
  /\ loc' = [loc EXCEPT ![t].points_scanned = performance_stats.points_scanned]
  /\ pc' = [pc EXCEPT ![t] = "stats_store"]
  /\ UNCHANGED <<now, amVars, last, dbVars, sysVars, performance_stats, extVars>>

\* Line 591, the write of the sum, and line 592; then the sleep.
StatsStore(t) ==
  /\ pc[t] = "stats_store"
  /\ performance_stats' = [points_scanned |-> loc[t].points_scanned + 1,
                           last_scan_time |-> now]
  /\ pc' = [pc EXCEPT ![t] = "idle"]
  /\ UNCHANGED <<now, amVars, last, dbVars, sysVars, loc, extVars>>

NextScanRace ==
  \/ \E t \in Writers, v \in Readings : ScanAddPoint(t, v)
  \/ \E t \in Writers : StatsLoad(t)
  \/ \E t \in Writers : StatsStore(t)

SpecScanRace == InitScanRace /\ [][NextScanRace]_vars

\* ------------------------------------------------------------------ claims
InHistory(ref) == \E k \in 1..Len(alert_history) : alert_history[k] = ref

\* C2: when evaluate_alerts evaluates an enabled rule that is not in cooldown
\* and whose condition is true (its template being well formed), on return exactly one new alert of the rule is
\* in active_alerts, unacknowledged and unresolved, with the rule's priority
\* and a message formatted with the source point and its value; the rule's
\* trigger time is in cooldown_tracker and the alert is on alert_queue.
C2_TrueConditionStoresOneAlert ==
  last.op = "evaluate_alerts" =>
    \A i \in 1..Len(last.rules) :
      (/\ last.log[i].step = "evaluated" /\ last.log[i].cond = "true"
       /\ last.rules[i].message_template = "ok") =>
        LET rule == last.rules[i]
            new == {ref \in (Len(last.before.heap) + 1)..Len(heap) :
                      heap[ref].rule_id = rule.rule_id}
        IN /\ Cardinality(new) = 1
           /\ \A ref \in new :
                /\ heap[ref].alert_id \in DOMAIN active_alerts
                /\ active_alerts[heap[ref].alert_id] = ref
                /\ ~heap[ref].acknowledged /\ ~heap[ref].resolved
                /\ heap[ref].priority = rule.priority
                /\ heap[ref].source_point = rule.condition.point
                /\ heap[ref].message = <<rule.message_template,
                                         get_value(last.data, rule.condition.point),
                                         rule.condition.point>>
                /\ \E k \in 1..Len(alert_queue) : alert_queue[k] = ref
           /\ rule.rule_id \in DOMAIN cooldown_tracker
           /\ cooldown_tracker[rule.rule_id] = now

\* C7: within one evaluate_alerts cycle an exception raised while evaluating or
\* triggering one rule stays with that rule: evaluate_alerts returns normally
\* and every enabled rule that is not in cooldown has been evaluated.
C7_RuleErrorContained ==
  last.op = "evaluate_alerts" =>
    /\ last.exc = "none"
    /\ \A i \in 1..Len(last.rules) :
         (last.rules[i].enabled /\ ~InCooldown(last.rules[i], last.before.tracker, now))
           => last.log[i].step = "evaluated"

\* A cycle in which a malformed condition and a bad template each raised and a
\* later rule was still evaluated.
C7_Witness ==
  /\ last.op = "evaluate_alerts"
  /\ \E i, j, k \in 1..Len(last.rules) :
       /\ i < k /\ j < k
       /\ last.log[i].exc = "SyntaxError"
       /\ last.log[j].exc = "KeyError"
       /\ last.log[k].step = "evaluated"
       /\ last.log[k].cond \in {"true", "false"}

\* C3: resolve_alert(id) on an alert in active_alerts returns True, sets
\* resolved with resolved_time = now, removes it from active_alerts and leaves
\* it in alert_history; on any other id (a resolved alert's too) it returns
\* False and changes nothing.
C3_ResolveOnceThenFail ==
  [][ last'.op = "resolve_alert" =>
        LET id == last'.alert_id
        IN IF id \in DOMAIN active_alerts
           THEN LET ref == active_alerts[id]
                IN /\ last'.ret
                   /\ heap'[ref].resolved
                   /\ heap'[ref].resolved_time = now
                   /\ heap' = [heap EXCEPT ![ref] = heap'[ref]]
                   /\ heap'[ref].acknowledged = heap[ref].acknowledged
                   /\ heap'[ref].acknowledged_by = heap[ref].acknowledged_by
                   /\ active_alerts' = Del(active_alerts, id)
                   /\ InHistory(ref)
                   /\ UNCHANGED <<alert_history, cooldown_tracker, alert_queue, performance_stats, extVars>>
           ELSE /\ ~last'.ret
                /\ UNCHANGED <<amVars, performance_stats, extVars>> ]_vars

\* A second resolve_alert of an acknowledged alert has just returned False.
C3_Witness ==
  /\ last.op = "resolve_alert"
  /\ ~last.ret
  /\ \E ref \in 1..Len(heap) :
       /\ heap[ref].alert_id = last.alert_id
       /\ heap[ref].resolved /\ heap[ref].acknowledged
       /\ heap[ref].resolved_time < now
       /\ InHistory(ref)
       /\ last.alert_id \notin DOMAIN active_alerts

\* C4: acknowledge_alert acts only on an Active alert (in the active set, not
\* acknowledged, not resolved), which it marks acknowledged with the actor and
\* the time, returning True; for an id not found or resolved it returns False
\* and changes nothing; acknowledged_by / acknowledged_time of an acknowledged
\* alert are never overwritten.
C4_AcknowledgeOnlyActive ==
  [][ /\ last'.op = "acknowledge_alert" =>
           LET id == last'.alert_id
           IN IF id \in DOMAIN active_alerts
              THEN LET ref == active_alerts[id]
                   IN (~heap[ref].acknowledged /\ ~heap[ref].resolved) =>
                        /\ last'.ret
                        /\ heap'[ref].acknowledged
                        /\ heap'[ref].acknowledged_by = last'.user
                        /\ heap'[ref].acknowledged_time = now
              ELSE /\ ~last'.ret
                   /\ UNCHANGED <<amVars, performance_stats, extVars>>
      /\ \A ref \in 1..Len(heap) :
           heap[ref].acknowledged =>
             /\ heap'[ref].acknowledged_by = heap[ref].acknowledged_by
             /\ heap'[ref].acknowledged_time = heap[ref].acknowledged_time ]_vars

Min(a, b) == IF a < b THEN a ELSE b

\* C5: after any sequence of add_point calls for a point, its buffer holds
\* exactly the min(k, N) most recently added samples, in insertion order
\* (k calls, capacity N = MaxSize).
C5_BufferKeepsNewest ==
  \A p \in PointIds :
    LET k == Len(written[p])
    IN IF k = 0 THEN p \notin DOMAIN buffer
       ELSE /\ p \in DOMAIN buffer
            /\ buffer[p] = SubSeq(written[p], k - Min(k, MaxSize) + 1, k)

\* A point that has had MaxSize + 1 samples added, the oldest of which differs
\* from the one now first in its buffer.
C5_Witness ==
  \E p \in DOMAIN buffer :
    /\ Len(written[p]) = MaxSize + 1
    /\ Len(buffer[p]) = MaxSize
    /\ written[p][1] # written[p][2]
    /\ buffer[p][MaxSize] = written[p][MaxSize + 1]

\* C6: every iteration of a scan loop appends exactly one sample to its
\* point's buffer: GOOD / ONLINE when the read succeeded, BAD / OFFLINE when
\* it failed.
C6_EveryIterationAppends ==
  \A i \in 1..Len(scan_log) : \A k \in 1..Len(scan_log[i]) :
    LET it == scan_log[i][k]
    IN /\ it.appended = 1
       /\ it.read = "ok" => (it.quality = "GOOD" /\ it.status = "ONLINE")
       /\ it.read # "ok" => (it.quality = "BAD" /\ it.status = "OFFLINE")

\* A thread of evaluate_alerts is between the cooldown check of rule rid and
\* the end of that rule's _trigger_alert (where the cooldown is set).
InCheckAndSet(t, rid) ==
  /\ pc[t] \in {"eval", "trigger"}
  /\ alert_rules[loc[t].i].rule_id = rid

\* Any two alerts of one rule were triggered at least the rule's
\* cooldown_minutes apart.
AlertsSpaced ==
  \A a, b \in 1..Len(heap) :
    (a < b /\ heap[a].rule_id = heap[b].rule_id) =>
      \A i \in 1..Len(alert_rules) :
        alert_rules[i].rule_id = heap[a].rule_id =>
          heap[b].timestamp - heap[a].timestamp >= alert_rules[i].cooldown_minutes

\* C8: with two evaluate_alerts cycles running concurrently, the cooldown check
\* and the cooldown set of a rule are one atomic step (no two cycles are
\* between them for the same rule), so the cycles never both create an alert
\* for it.
C8_CheckAndSetAtomic ==
  /\ \A t1, t2 \in DOMAIN pc : \A rid \in RuleIds :
       (t1 # t2 /\ InCheckAndSet(t1, rid)) => ~InCheckAndSet(t2, rid)
  /\ AlertsSpaced

\* C9: under every interleaving of acknowledge_alert and resolve_alert on one
\* alert_id, once the alert is resolved (resolved = true, out of the active
\* set) none of acknowledged, acknowledged_by, acknowledged_time and
\* resolved_time changes again.
C9_ResolvedIsFrozen ==
  [][ \A ref \in 1..Len(heap) :
        (heap[ref].resolved /\ heap[ref].alert_id \notin DOMAIN active_alerts) =>
          /\ heap'[ref].acknowledged = heap[ref].acknowledged
          /\ heap'[ref].acknowledged_by = heap[ref].acknowledged_by
          /\ heap'[ref].acknowledged_time = heap[ref].acknowledged_time
          /\ heap'[ref].resolved_time = heap[ref].resolved_time ]_vars

\* C10: get_latest, get_history and get_all_latest, run while other threads
\* are in add_point (the first add_point of a point included), never raise,
\* and every sample they return was written to its point's buffer.
C10_ReadersNeverRaise ==
  last.op \in {"get_latest", "get_history", "get_all_latest"} =>
    /\ last.exc = "none"
    /\ \A k \in 1..Len(last.value) :
         /\ last.value[k].point_id \in PointIds
         /\ \E j \in 1..Len(written[last.value[k].point_id]) :
              written[last.value[k].point_id][j] = last.value[k]

\* C11: in every reachable state each point's buffer is ordered by
\* non-decreasing sample timestamp, whichever way the scan tasks and the data
\* pipeline's add_point calls interleave.
C11_BufferTimeOrdered ==
  \A p \in DOMAIN buffer : \A k \in 1..(Len(buffer[p]) - 1) :
    buffer[p][k].timestamp <= buffer[p][k + 1].timestamp

\* The scan tasks of point id p that have not ended.
ScanTasksOf(p) ==
  {i \in 1..Len(tasks) : tasks[i].kind = "scan" /\ tasks[i].state # "done"
                          /\ tasks[i].point.point_id = p}

\* C12: whenever the status is ACTIVE, each enabled point in monitoring_points
\* has exactly one scan task, and no disabled or unregistered point has one.
C12_OneScanTaskPerEnabledPoint ==
  status = "ACTIVE" =>
    \A p \in PointIds :
      IF \E k \in 1..Len(monitoring_points) :
           monitoring_points[k].point_id = p /\ monitoring_points[k].enabled
      THEN Cardinality(ScanTasksOf(p)) = 1
      ELSE ScanTasksOf(p) = {}

\* The loop task of the given kind that start_monitoring submitted is in one
\* of the given states.
LoopIn(kind, states) ==
  \E i \in 1..Len(tasks) : tasks[i].kind = kind /\ tasks[i].state \in states

\* C13: after start_monitoring the alert evaluation loop and the notification
\* loop eventually start running, for any number of enabled monitoring points
\* (as many as the executor has workers, or more).
C13_LoopsEventuallyStart ==
  /\ LoopIn("alert_evaluation", {"submitted"}) ~> LoopIn("alert_evaluation", {"running", "done"})
  /\ LoopIn("notification", {"submitted"}) ~> LoopIn("notification", {"running", "done"})

\* remove_monitoring_point(p) has returned, having found p.
Removed(p) == last.op = "remove_monitoring_point" /\ last.point_id = p /\ last.found

\* C14: after remove_monitoring_point(p) returns, p's scan task eventually
\* ends and at most one more sample (the iteration in flight) is appended for
\* p, also when p is removed before its scan task has started and registered
\* its stop flag in scan_threads.
C14_RemovedPointStops ==
  /\ \A p \in PointIds : Removed(p) ~> (ScanTasksOf(p) = {})
  /\ [](\A p \in PointIds : Removed(p) => Len(written[p]) <= last.written + 1)

\* C15: after stop_monitoring is called on an ACTIVE system every scan task,
\* the alert evaluation loop and the notification loop exit, and
\* stop_monitoring returns with no task of the executor (the WebSocket server
\* task included) still running.
C15_StopReturns ==
  /\ (pc.stop = "shutdown") ~>
       (\A i \in 1..Len(tasks) :
          tasks[i].kind \in {"scan", "alert_evaluation", "notification"} => tasks[i].state = "done")
  /\ (pc.stop = "shutdown") ~> (pc.stop = "returned")
  /\ [](pc.stop = "returned" => \A i \in 1..Len(tasks) : tasks[i].state = "done")

\* The references of the alerts on the queue at the start.
QueuedRefs == {1, 2}
Queued(ref) == \E k \in 1..Len(alert_queue) : alert_queue[k] = ref
Dispatched(ref) ==
  \E i \in 1..Len(tasks) :
    /\ tasks[i].kind = "notification"
    /\ \E k \in 1..Len(scan_log[i]) : scan_log[i][k].alert = ref

\* C17: every alert on alert_queue of a started system is eventually taken by
\* the notification loop and dispatched, alerts still queued when
\* stop_monitoring is called included.
C17_QueuedAlertsDispatched ==
  \A ref \in QueuedRefs : (Queued(ref) /\ status = "ACTIVE") ~> Dispatched(ref)

\* The step is an iteration of scan task i whose read raised.
FailedIteration(i) ==
  /\ i <= Len(scan_log) /\ tasks[i].kind = "scan"
  /\ Len(scan_log'[i]) = Len(scan_log[i]) + 1
  /\ scan_log'[i][Len(scan_log'[i])].read # "ok"

\* Scan task j is in its loop on a readable point of an ACTIVE system, not
\* told to stop (and below the bound on samples).
CanScan(j) ==
  /\ tasks[j].kind = "scan" /\ tasks[j].state = "running"
  /\ ~tasks[j].stop /\ status = "ACTIVE"
  /\ ReadPointValue(tasks[j].point) = "none"
  /\ Len(written[tasks[j].point.point_id]) < MaxAdds

\* C16: a read failure in the scan task of a point never ends or blocks the
\* scan task of another point: the failed iteration leaves the status, the
\* other tasks, their stop flags and the other points' buffers as they were,
\* and while the system is ACTIVE every other scan loop can go on appending.
C16_FailureStaysLocal ==
  /\ [][\A i \in 1..Len(tasks) : FailedIteration(i) =>
          /\ status' = status
          /\ scan_threads' = scan_threads
          /\ \A j \in 1..Len(tasks) : j # i => (tasks'[j] = tasks[j] /\ scan_log'[j] = scan_log[j])
          /\ tasks'[i].state = "running"
          /\ \A p \in PointIds : p # tasks[i].point.point_id =>
               (written'[p] = written[p] /\ (p \in DOMAIN buffer => buffer'[p] = buffer[p]))]_vars
  /\ [](\A j \in 1..Len(tasks) : CanScan(j) => ENABLED ScanIteration(j, 96))

\* The scan task of T001 has failed more than once, and the scan task of
\* P001, still running on the ACTIVE system, has appended more than once.
C16_Witness ==
  \E i, j \in 1..Len(tasks) :
    /\ tasks[i].kind = "scan" /\ tasks[j].kind = "scan" /\ i # j
    /\ Len(scan_log[i]) >= 2
    /\ \A k \in 1..Len(scan_log[i]) : scan_log[i][k].read = "AttributeError"
    /\ Len(scan_log[j]) >= 2
    /\ \A k \in 1..Len(scan_log[j]) : scan_log[j][k].read = "ok"
    /\ Len(written[tasks[j].point.point_id]) = Len(scan_log[j])
    /\ tasks[i].state = "running" /\ tasks[j].state = "running"
    /\ status = "ACTIVE"

\* The channels the routing policy names for a priority, and the channels the
\* NotificationSystem has a configuration for (the webhook channel needs none).
RoutedChannels(priority) ==
  IF priority \in {AlertPriority.EMERGENCY, AlertPriority.CRITICAL} THEN {"webhook", "email", "sms"}
  ELSE IF priority = AlertPriority.HIGH THEN {"webhook", "email"}
  ELSE {"webhook"}
ConfiguredChannels(email_config, sms_config) ==
  {"webhook"} \cup (IF email_config THEN {"email"} ELSE {})
              \cup (IF sms_config THEN {"sms"} ELSE {})

\* C18: _process_alert_notification sends an EMERGENCY or CRITICAL alert to
\* all configured channels (webhook, email, SMS), a HIGH alert to webhook and
\* email, a MEDIUM or LOW alert to webhook only.
C18_RoutedByPriority ==
  last.op = "process_alert_notification" =>
    last.channels =
      RoutedChannels(last.alert.priority)
        \cap ConfiguredChannels(last.email_config, last.sms_config)

\* C19: for each alert a failed send on a channel is logged and prevents
\* neither the send attempt on another channel selected for the alert nor
\* the call of the broadcast to the websocket clients.
C19_FailedSendIsolated ==
  /\ last.op = "process_alert_notification" =>
        /\ last.broadcast
        /\ last.failing # {} => "webhook" \in last.logged
  /\ last.op = "send_alert" =>
        /\ \A k \in 1..Len(last.channels) :
             last.channels[k].enabled /\ last.severity \in last.channels[k].severity_filter
               => last.channels[k].name \in last.attempted
        /\ last.attempted \cap last.failing = last.logged
\* a webhook post failed while clients were connected
C19_Witness ==
  /\ last.op = "process_alert_notification"
  /\ last.failing # {}
  /\ last.clients_before # {}
  /\ last.broadcast

\* C20: a broadcast sends the event to every connected subscriber, and leaves
\* as subscribers the previous ones minus exactly those whose send failed (the
\* closed connections).
C20_BroadcastKeepsLiveSubscribers ==
  last.op = "process_alert_notification" =>
    /\ last.scheduled = last.clients_before
    /\ last.clients_after = last.clients_before \ last.closed

\* The Modbus CRC-16 by its definition: register 0xFFFF, each byte xored into
\* the low byte, eight times: shift right and xor 0xA001 when a 1 fell out.
\* Here bit by bit over the frame's bits, least significant first.
FrameBits(data) == [k \in 1..(8 * Len(data)) |-> (data[((k - 1) \div 8) + 1] \div (2 ^ ((k - 1) % 8))) % 2]
RECURSIVE Crc16Bits(_, _, _)
Crc16Bits(reg, bits, k) ==
  IF k > Len(bits) THEN reg
  ELSE CHOOSE r \in {Crc16Bits(n, bits, k + 1) :
                      n \in {IF (reg + bits[k]) % 2 = 1 THEN Xor(reg \div 2, 40961)
                             ELSE reg \div 2}} : TRUE
Crc16(data) == CHOOSE r \in {Crc16Bits(65535, bits, 1) : bits \in {FrameBits(data)}} : TRUE
TrailerOk(response) ==
  /\ Len(response) >= 2
  /\ SubSeq(response, Len(response) - 1, Len(response))
       = PackLE(Crc16(SubSeq(response, 1, Len(response) - 2)))

\* C21: read_input_registers returns register values only when the last two
\* bytes of the response are the CRC-16 of the bytes before them, low byte
\* first; a response whose last two bytes were corrupted gives None.
C21_CrcGuardsDecode ==
  last.op = "read_input_registers" =>
    /\ ~last.ret.none => TrailerOk(last.response)
    /\ last.damage.kind = "trailer" => last.ret.none
    /\ last.damage.kind = "none" => last.ret = Returns(last.regs)
\* a frame with a damaged trailer was read and rejected
C21_Witness ==
  /\ last.op = "read_input_registers"
  /\ last.damage.kind = "trailer"
  /\ last.ret.none

\* C22: a read of count registers returns a failure or exactly count values
\* equal to the server's registers; a short or malformed response (fewer than
\* 9 bytes, wrong function code, byte count other than 2*count or larger than
\* the bytes received) gives a failure.
C22_ExactlyCountValues ==
  last.op = "read_holding_registers" /\ last.sent # <<>> =>
    /\ last.ret.none \/ last.ret.values = SubSeq(ServerRegisters, 1, last.count)
    /\ last.answer # "ok" => last.ret.none

\* C23: a read that fails by timeout or decode failure is reported to the
\* caller only after config.retries further attempts, the connection being
\* re-established before each of them.
C23_FailedReadRetried ==
  /\ last.op = "read_holding_registers" /\ last.answer \in {"timeout", "odd", "header"}
       /\ last.sent # <<>> =>
         last.attempts = 1 + retries /\ last.connects = retries
  /\ last.op = "read_all_data" /\ last.answer \in {"timeout", "odd"} =>
       \A n \in DOMAIN last.results :
         last.results[n].attempts # 0 =>
           last.results[n].attempts = 1 + retries /\ last.results[n].connects = retries

\* C28: the transaction id of every request fits the 16-bit field of the MBAP
\* header: it wraps modulo 2^16, and the request is encoded and sent.
C28_TransactionIdWraps ==
  last.op \in {"read_holding_registers", "write_single_register"} =>
    /\ last.sent # <<>>
    /\ SubSeq(last.sent, 1, 2) = PackBE(last.transaction_id % 65536)

\* C29: when remove_connection(name) returns, every connection add_connection
\* opened under that name has been disconnected, and when shutdown() returns
\* every connection it opened has been, also after add_connection was called
\* again with a registered name.
C29_NoConnectionLost ==
  /\ last.op = "remove_connection" =>
       \A ref \in 1..Len(protocols) :
         protocols[ref].name = last.name => protocols[ref].socket # "connected"
  /\ last.op = "shutdown" =>
       \A ref \in 1..Len(protocols) : protocols[ref].socket # "connected"

\* C24: every alert _trigger_alert creates gets an alert_id that no other
\* alert ever got, two triggers of one rule at the same clock reading
\* included.
C24_AlertIdsUnique ==
  \A a, b \in 1..Len(Triggered) : a # b => Triggered[a] # Triggered[b]

\* C25: the samples get_latest, get_history and get_all_latest return are
\* copies, so whatever earlier callers did to the samples they were returned,
\* a read gives the samples as the writers appended them.
C25_ReadersGetCopies ==
  last.op \in {"get_latest", "get_history", "get_all_latest"} => last.seen = last.expected

\* C26: _trigger_alert suppresses duplicates. A call that finds an accepted
\* alert of its source and type stores and sends its own alert only if its
\* timestamp is at least 5 minutes after that one, and any two alerts of one
\* source and type in the Redis list are at least 5 minutes apart.
SameKind(a, b) == a.source = b.source /\ a.type = b.type
Apart(a, b) ==
  /\ fromisoformat(a.timestamp).aware = fromisoformat(b.timestamp).aware
  /\ \/ fromisoformat(a.timestamp).minute - fromisoformat(b.timestamp).minute >= SuppressMinutes
     \/ fromisoformat(b.timestamp).minute - fromisoformat(a.timestamp).minute >= SuppressMinutes
C26_DuplicatesSuppressed ==
  /\ (last.op = "check_thresholds" /\ last.before # <<>> /\ (last.stored \/ last.sent))
       => /\ Apart(last.alert[1], last.before[1])
          /\ fromisoformat(last.alert[1].timestamp).minute
               >= fromisoformat(last.before[1].timestamp).minute + SuppressMinutes
  /\ \A i, j \in 1..Len(redis_alerts) :
       (i # j /\ SameKind(redis_alerts[i], redis_alerts[j]))
         => Apart(redis_alerts[i], redis_alerts[j])

\* An alert arrived less than 5 minutes after the accepted one of its source
\* and type, which itself had followed an earlier accepted one, and was dropped.
C26_Witness ==
  /\ last.op = "check_thresholds" /\ last.violation_type # "None"
  /\ last.before # <<>> /\ last.exc = "none"
  /\ ~last.stored /\ ~last.sent
  /\ fromisoformat(last.alert[1].timestamp).minute > fromisoformat(last.before[1].timestamp).minute
  /\ \E i, j \in 1..Len(redis_alerts) : i # j /\ SameKind(redis_alerts[i], redis_alerts[j])

\* C27: acknowledge_alert and resolve_alert change only the record whose id is
\* alert_id: every other record of the Redis list is after the call what and
\* where it was before the LSET, and no id is in the list twice, also when
\* _trigger_alert pushed a new alert between the LRANGE and the LSET.
C27_OnlyTargetChanged ==
  last.op \in {"acknowledge_alert", "resolve_alert"} =>
    /\ Len(last.after) = Len(last.before)
    /\ \A k \in 1..Len(last.before) :
         last.before[k].id # last.alert_id => last.after[k] = last.before[k]
    /\ \A j, k \in 1..Len(last.after) :
         j # k => last.after[j].id # last.after[k].id

\* C30: whenever no scan thread is inside an iteration, points_scanned is the
\* number of samples the scan tasks have appended to the DataBuffer, whatever
\* the interleaving of the scan threads was.
C30_NoIncrementLost ==
  (\A t \in Writers : pc[t] = "idle")
    => performance_stats.points_scanned = Len(written["T001"]) + Len(written["P001"])
====
